---- MODULE Spec2Model ----
(***************************************************************************)
(* A model of prefer.go: the FileLoader (Locate / Load / WatchWithContext), *)
(* the codec dispatch (NewSerializer) and the Configuration orchestration  *)
(* (Reload / WatchWithDone) with its two goroutines.                       *)
(*                                                                         *)
(* Paths are sequences of tokens: a directory token ("." or "/etc"), name  *)
(* tokens ("cfg") and extension tokens (".json").  <<"/etc","cfg",".json">>*)
(* stands for "/etc/cfg.json", <<"cfg",".json">> for "cfg.json".           *)
(***************************************************************************)
EXTENDS Integers, Sequences, FiniteSets, TLC

VARIABLES
    Identifier,     \* Configuration.Identifier
    fs,             \* the file system: existing path -> [kind, data]
    dest,           \* the value behind the caller's dest pointer
    cfgPc,          \* position of Configuration.WatchWithDone
    cfgRet,         \* what Configuration.WatchWithDone returned
    pkgRet,         \* what the package-level WatchWithDone returned
    chanCap,        \* capacity of the output channel
    outBuf,         \* values buffered in the output channel
    outClosed,      \* the output channel has been closed
    published,      \* values whose send on the output channel completed
    done,           \* the done channel: "nil", "open" or "closed"
    activeAtClose,  \* history: the goroutine was running when done was closed
    skipped,        \* history: number of reload cycles that ended in `continue`
    watcher,        \* the watcher handle: "none", "open" or "closed"
    closeCalls,     \* number of Close() calls on the handle
    watchLocation,  \* the path registered with watcher.Add
    events,         \* watcher.Events(): pending events, each a set of ops
    eventsClosed,   \* watcher.Events() has been closed
    errorsPending,  \* watcher.Errors(): number of pending errors
    errorsClosed,   \* watcher.Errors() has been closed
    loaderPc,       \* position of the FileLoader goroutine
    loaderIdentifier, \* FileLoader.identifier of the loader WatchWithDone made
    bgPc,           \* position of the Configuration goroutine
    nWrites,        \* file changes made so far by the environment
    located,        \* the result of the last FileLoader.Locate call
    lastCall,       \* the last call made on its own, with what it was given and returned
    heap,           \* the maps allocated so far: reference -> (key -> value)
    sources,        \* ConfigBuilder.sources: the Source values, in the order added
    merged,         \* the map returned by the last DeepMerge or Build call
    environ,        \* os.Environ(): the entries of the process environment
    observed        \* history: number of write/create events the watcher has reported

vars == << Identifier, fs, dest, cfgPc, cfgRet, pkgRet, chanCap, outBuf,
           outClosed, published, done, activeAtClose, skipped, watcher, closeCalls,
           watchLocation, events, eventsClosed, errorsPending, errorsClosed,
           loaderPc, loaderIdentifier, bgPc, nWrites, located,
           lastCall, heap, sources, merged, environ,
           observed >>

(***************************************************************************)
(* Bounds of the model.                                                    *)
(***************************************************************************)
MaxWrites == 2
MaxEvents == 1
MaxErrors == 1
MaxFiles == 2

NoErr == "nil"

(***************************************************************************)
(* serializers.go: the codec registry.                                     *)
(***************************************************************************)
defaultSerializers ==
    [e \in {".json", ".yml", ".yaml", ".xml", ".ini"} |->
        CASE e = ".json" -> "JSON"
          [] e = ".yml"  -> "YAML"
          [] e = ".yaml" -> "YAML"
          [] e = ".xml"  -> "XML"
          [] e = ".ini"  -> "INI"]

\* tokens that are a filename extension (begin with a dot)
ExtTokens == DOMAIN defaultSerializers \cup {".txt"}

\* path.Ext: the extension of the last element, "" when it has none
Ext(p) ==
    IF p # <<>> /\ p[Len(p)] \in ExtTokens THEN p[Len(p)] ELSE ""

\* mutant: a JSON document is given the JSON codec whatever the extension
NewSerializer_ByContent(identifier, content) ==
    LET extension == Ext(identifier)
    IN  IF content # <<>> /\ content[1] = "j"
        THEN [codec |-> "JSON", err |-> NoErr, message |-> <<>>]
        ELSE IF extension \in DOMAIN defaultSerializers
        THEN [codec |-> defaultSerializers[extension], err |-> NoErr,
              message |-> <<>>]
        ELSE [codec |-> "none", err |-> "NoMatchingCodec",
              message |-> <<"No matching serializer for ">> \o identifier]

\* NewSerializer(identifier, content): the content is not looked at; the
\* error message is "No matching serializer for " + identifier
NewSerializer(identifier, content) ==
    LET extension == Ext(identifier)
    IN  IF extension \in DOMAIN defaultSerializers
        THEN [codec |-> defaultSerializers[extension], err |-> NoErr,
              message |-> <<>>]
        ELSE [codec |-> "none", err |-> "NoMatchingCodec",
              message |-> <<"No matching serializer for ">> \o identifier]

\* The codecs are external: a document is a format marker and a value, and a
\* codec accepts the markers of its format (YAML also reads JSON documents).
Accepts ==
    [c \in {"JSON", "YAML", "XML", "INI"} |->
        CASE c = "JSON" -> {"j"}
          [] c = "YAML" -> {"y", "j"}
          [] c = "XML"  -> {"x"}
          [] c = "INI"  -> {"i"}]

DocValues == {"v1", "v2"}

Deserialize(codec, content, out) ==
    IF Len(content) = 2 /\ content[1] \in Accepts[codec] /\ content[2] \in DocValues
    THEN [dest |-> content[2], err |-> NoErr]
    ELSE [dest |-> out, err |-> "DeserializeError"]

(***************************************************************************)
(* pathing.go: the standard directories.                                   *)
(***************************************************************************)
\* getSystemPaths(): the root directory, for which init adds "/etc"
SystemPaths == << <<"/">> >>

\* filepath.Join(path, "/etc"): an empty element is ignored, "./etc" is "etc"
JoinEtc(path) ==
    IF path = <<>> THEN <<"/etc">>
    ELSE IF path = <<".">> THEN <<"etc">>
    ELSE Append(path, "etc")

\* if len(wd) > 4 && wd[len(wd)-4:] == filepath.Join("", "bin"): the last
\* four characters of wd, "/bin" when its last element is "bin", are
\* compared with the three characters "bin"
stripBin(wd) ==
    IF Len(wd) > 1 /\ <<"/", wd[Len(wd)]>> = <<"bin">>
    THEN SubSeq(wd, 1, Len(wd) - 1)
    ELSE wd

\* paths := []string{".", wd}, then the XDG_CONFIG_DIRS and system entries
candidatePaths(wd, xdgPaths) ==
    <<  <<".">>, stripBin(wd) >> \o xdgPaths \o SystemPaths

\* the keys of pathMap after the loop over paths
pathMap(paths) ==
    UNION { LET path == IF paths[i] = <<"/">> THEN <<>> ELSE paths[i]
            IN  {JoinEtc(path)} \cup (IF Len(path) > 0 THEN {path} ELSE {}) :
            i \in 1..Len(paths) }

\* the orders in which a range over a map with the keys S can visit them
RECURSIVE RangeOrders(_)
RangeOrders(S) ==
    IF S = {} THEN { <<>> }
    ELSE UNION { { <<x>> \o rest : rest \in RangeOrders(S \ {x}) } : x \in S }

\* init(): the lists it can leave in standardPaths
pathingInit(wd, xdgPaths) ==
    RangeOrders(pathMap(candidatePaths(wd, xdgPaths)))

\* the list init() has left in standardPaths, with the working directory
\* "/wd" and XDG_CONFIG_DIRS unset, in one of the orders it can have
standardPaths ==
    << <<".">>, <<"etc">>, <<"/wd">>, <<"/wd", "etc">>, <<"/etc">> >>

\* what GetStandardPaths returns: the elements of standardPaths
GetStandardPaths == standardPaths

\* the package variable standardPaths is the slice at this reference
standardPathsRef == 1

\* mutant: the slice of the package variable itself is returned
GetStandardPathsFrom_Shared(h, ref) ==
    [heap |-> h, result |-> ref]

\* GetStandardPaths on the heap of slices: paths := make([]string, len);
\* copy(paths, standardPaths); return paths
GetStandardPathsFrom(h, ref) ==
    [heap |-> Append(h, h[ref]), result |-> Len(h) + 1]

AbsRoots == {"/wd", "/etc"}

\* path.IsAbs
IsAbs(p) == p # <<>> /\ p[1] \in AbsRoots

\* a rooted first element loses its root when it is joined behind a directory
Unroot(tok) ==
    CASE tok = "/wd"  -> "wd"
      [] tok = "/etc" -> "etc"
      [] OTHER        -> tok

\* path.Join(directory, identifier), cleaned: "./x" is "x"
Join(directory, identifier) ==
    LET rel == IF IsAbs(identifier)
               THEN <<Unroot(identifier[1])>> \o Tail(identifier)
               ELSE identifier
    IN  IF rel = <<>> THEN directory
        ELSE IF directory = <<".">> THEN rel
        ELSE directory \o rel

(***************************************************************************)
(* loaders.go: the FileLoader.                                             *)
(***************************************************************************)
\* mutant: an empty identifier is accepted
NewLoader_AcceptsEmpty(identifier) ==
    [identifier |-> identifier, err |-> NoErr]

NewLoader(identifier) ==
    IF identifier = <<>>
    THEN [identifier |-> <<>>, err |-> "EmptyIdentifier"]
    ELSE [identifier |-> identifier, err |-> NoErr]

\* os.Stat on the modelled file system
statFunc(fsys, location) ==
    IF location \notin DOMAIN fsys THEN "NotExist"
    ELSE IF fsys[location].kind = "staterr" THEN "StatError"
    ELSE NoErr

\* mutant: a stat failure of any kind counts as "does not exist"
checkFileExists_Missing(fsys, location) ==
    LET err == statFunc(fsys, location)
    IN  IF err = NoErr THEN [exists |-> TRUE, err |-> NoErr]
        ELSE [exists |-> FALSE, err |-> NoErr]

checkFileExists(fsys, location) ==
    LET err == statFunc(fsys, location)
    IN  IF err = NoErr THEN [exists |-> TRUE, err |-> NoErr]
        ELSE IF err = "NotExist" THEN [exists |-> FALSE, err |-> NoErr]
        ELSE [exists |-> TRUE, err |-> err]

\* `for extension := range defaultSerializers`: Go iterates a map in an
\* unspecified order, so the loop can return at any candidate that exists.
RangeHits(fsys, base) ==
    { base \o <<extension>> : extension \in
        { e \in DOMAIN defaultSerializers :
            checkFileExists(fsys, base \o <<e>>).exists } }

Found(fsys, location) ==
    [path |-> location, err |-> checkFileExists(fsys, location).err]

NotFound == [path |-> <<>>, err |-> "NotFound"]

\* mutant: in a directory the extensions are tried before the exact name
RECURSIVE LocateInPaths_ExtFirst(_, _, _, _)
LocateInPaths_ExtFirst(fsys, paths, identifier, index) ==
    IF index > Len(paths) THEN {NotFound}
    ELSE LET identifierWithPath == Join(paths[index], identifier)
         IN  IF RangeHits(fsys, identifierWithPath) # {}
             THEN {Found(fsys, h) : h \in RangeHits(fsys, identifierWithPath)}
             ELSE IF checkFileExists(fsys, identifierWithPath).exists
             THEN {Found(fsys, identifierWithPath)}
             ELSE LocateInPaths_ExtFirst(fsys, paths, identifier, index + 1)

\* the loop over the standard directories, from directory number index on
RECURSIVE LocateInPaths(_, _, _, _)
LocateInPaths(fsys, paths, identifier, index) ==
    IF index > Len(paths) THEN {NotFound}
    ELSE LET identifierWithPath == Join(paths[index], identifier)
         IN  IF checkFileExists(fsys, identifierWithPath).exists
             THEN {Found(fsys, identifierWithPath)}
             ELSE IF RangeHits(fsys, identifierWithPath) # {}
             THEN {Found(fsys, h) : h \in RangeHits(fsys, identifierWithPath)}
             ELSE LocateInPaths(fsys, paths, identifier, index + 1)

\* FileLoader.Locate when GetStandardPaths() returns paths: the set of
\* results the call can return
LocateWith(fsys, paths, identifier) ==
    IF IsAbs(identifier) /\ checkFileExists(fsys, identifier).exists
    THEN {Found(fsys, identifier)}
    ELSE IF IsAbs(identifier) /\ RangeHits(fsys, identifier) # {}
    THEN {Found(fsys, h) : h \in RangeHits(fsys, identifier)}
    ELSE LocateInPaths(fsys, paths, identifier, 1)

\* FileLoader.Locate: the set of results the call can return
Locate(fsys, identifier) ==
    LocateWith(fsys, GetStandardPaths, identifier)

\* bufio.ScanLines: a trailing carriage return of a line is dropped
dropCR(line) ==
    IF line # <<>> /\ line[Len(line)] = "CR"
    THEN SubSeq(line, 1, Len(line) - 1)
    ELSE line

\* the Scanner loop of Load: the lines of the file, without their line
\* terminators, appended to one another.  "BIG" is a run of 64K bytes that
\* holds no line feed: the Scanner's buffer fills without a token, Scan()
\* returns false and the loop ends with what it has appended so far.
RECURSIVE ScanFrom(_, _, _)
ScanFrom(data, i, line) ==
    IF i > Len(data) THEN dropCR(line)
    ELSE IF data[i] = "BIG" THEN <<>>
    ELSE IF data[i] = "LF" THEN dropCR(line) \o ScanFrom(data, i + 1, <<>>)
    ELSE ScanFrom(data, i + 1, Append(line, data[i]))

\* Load for one result of Locate; opened says whether os.Open was called
LoadAt(fsys, loc) ==
    IF loc.err # NoErr
    THEN [identifier |-> <<>>, content |-> <<>>, err |-> loc.err,
          opened |-> FALSE]
    ELSE IF fsys[loc.path].kind = "noperm"
    THEN [identifier |-> <<>>, content |-> <<>>, err |-> "OpenError",
          opened |-> TRUE]
    ELSE [identifier |-> loc.path,
          content |-> ScanFrom(fsys[loc.path].data, 1, <<>>),
          err |-> NoErr, opened |-> TRUE]

\* FileLoader.Load: the set of results the call can return
Load(fsys, identifier) ==
    { LoadAt(fsys, loc) : loc \in Locate(fsys, identifier) }

(***************************************************************************)
(* prefer.go: Configuration.Reload.                                        *)
(***************************************************************************)
\* mutant: the codec is chosen by the extension of the logical identifier
ReloadAt_LogicalIdentifier(loaded, identifier, out) ==
    IF loaded.err # NoErr
    THEN [Identifier |-> identifier, dest |-> out, err |-> loaded.err,
          opened |-> loaded.opened]
    ELSE LET serializer == NewSerializer(identifier, loaded.content)
         IN  IF serializer.err # NoErr
             THEN [Identifier |-> loaded.identifier, dest |-> out,
                   err |-> serializer.err, opened |-> TRUE]
             ELSE LET d == Deserialize(serializer.codec, loaded.content, out)
                  IN  [Identifier |-> loaded.identifier, dest |-> d.dest,
                       err |-> d.err, opened |-> TRUE]

\* mutant: Identifier is assigned only when the whole Reload has succeeded
ReloadAt_IdentifierOnSuccess(loaded, identifier, out) ==
    IF loaded.err # NoErr
    THEN [Identifier |-> identifier, dest |-> out, err |-> loaded.err,
          opened |-> loaded.opened]
    ELSE LET serializer == NewSerializer(loaded.identifier, loaded.content)
         IN  IF serializer.err # NoErr
             THEN [Identifier |-> identifier, dest |-> out,
                   err |-> serializer.err, opened |-> TRUE]
             ELSE LET d == Deserialize(serializer.codec, loaded.content, out)
                  IN  [Identifier |-> IF d.err # NoErr THEN identifier
                                      ELSE loaded.identifier,
                       dest |-> d.dest, err |-> d.err, opened |-> TRUE]

\* Reload for one result of loader.Load(); opened says whether a file was
\* opened on the way
ReloadAt(loaded, identifier, out) ==
    IF loaded.err # NoErr
    THEN [Identifier |-> identifier, dest |-> out, err |-> loaded.err,
          opened |-> loaded.opened]
    ELSE LET serializer == NewSerializer(loaded.identifier, loaded.content)
         IN  IF serializer.err # NoErr
             THEN [Identifier |-> loaded.identifier, dest |-> out,
                   err |-> serializer.err, opened |-> TRUE]
             ELSE LET d == Deserialize(serializer.codec, loaded.content, out)
                  IN  [Identifier |-> loaded.identifier, dest |-> d.dest,
                       err |-> d.err, opened |-> TRUE]

\* the set of outcomes of this.Reload(dest)
Reload(fsys, identifier, out) ==
    IF NewLoader(identifier).err # NoErr
    THEN {[Identifier |-> identifier, dest |-> out,
           err |-> NewLoader(identifier).err, opened |-> FALSE]}
    ELSE { ReloadAt(loaded, identifier, out) : loaded \in Load(fsys, identifier) }

(***************************************************************************)
(* The environment: the files, the operating system's watcher, the caller. *)
(***************************************************************************)
JsonV1 == [kind |-> "file", data |-> <<"j", "v1", "LF">>]
JsonV2 == [kind |-> "file", data |-> <<"j", "v2", "LF">>]
BadDoc == [kind |-> "file", data |-> <<"?", "LF">>]
NoPerm == [kind |-> "noperm", data |-> <<>>]
StatErr == [kind |-> "staterr", data |-> <<>>]

\* the files the environment changes while a watch runs
WatchFiles == { <<"cfg", ".json">>, <<"/etc", "cfg", ".json">> }

WatchIdentifiers == { <<>>, <<"cfg">>, <<"/etc", "cfg", ".json">> }

\* what the environment writes to a file
WrittenFiles == { JsonV2, BadDoc }

\* the file systems a watch starts from: no file, a valid or an invalid
\* "cfg.json", "/etc/cfg.json", both, and a file "cfg" without extension
InitialFileSystems ==
    { [p \in S |-> JsonV1] :
        S \in { {}, { <<"cfg", ".json">> }, { <<"/etc", "cfg", ".json">> },
                WatchFiles, { <<"cfg">>, <<"cfg", ".json">> } } }
    \cup { [p \in { <<"cfg", ".json">> } |-> BadDoc] }

\* some code can still read the files: the environment's later changes of
\* them are not modelled
Live ==
    cfgPc \notin {"failedReload", "failedSetup"} /\ bgPc # "exited"

WriteTo(fsys, p, f) ==
    [q \in DOMAIN fsys \cup {p} |-> IF q = p THEN f ELSE fsys[q]]

RemoveFrom(fsys, p) ==
    [q \in DOMAIN fsys \ {p} |-> fsys[q]]

\* the watcher reports an operation on the path it was registered on
Observed(p) ==
    watcher = "open" /\ watchLocation = p /\ ~eventsClosed

Emit(p, op) ==
    IF Observed(p)
    THEN /\ Len(events) < MaxEvents
         /\ events' = Append(events, op)
         /\ observed' = IF op \cap {"Write", "Create"} # {}
                        THEN observed + 1 ELSE observed
    ELSE UNCHANGED << events, observed >>

WriteFile(p, f) ==
    /\ Live
    /\ nWrites < MaxWrites
    /\ fs' = WriteTo(fs, p, f)
    /\ Emit(p, IF p \in DOMAIN fs THEN {"Write"} ELSE {"Create"})
    /\ nWrites' = nWrites + 1
    /\ UNCHANGED << Identifier, dest, cfgPc, cfgRet, pkgRet, chanCap, outBuf,
                    outClosed, published, done, activeAtClose, skipped, watcher,
                    closeCalls, watchLocation, eventsClosed, errorsPending,
                    errorsClosed, loaderPc, loaderIdentifier, bgPc, located,
                    lastCall, heap, sources, merged, environ >>

RemoveFile(p) ==
    /\ Live
    /\ nWrites < MaxWrites
    /\ p \in DOMAIN fs
    /\ fs' = RemoveFrom(fs, p)
    /\ Emit(p, {"Remove"})
    /\ nWrites' = nWrites + 1
    /\ UNCHANGED << Identifier, dest, cfgPc, cfgRet, pkgRet, chanCap, outBuf,
                    outClosed, published, done, activeAtClose, skipped, watcher,
                    closeCalls, watchLocation, eventsClosed, errorsPending,
                    errorsClosed, loaderPc, loaderIdentifier, bgPc, located,
                    lastCall, heap, sources, merged, environ >>

\* a metadata-only change of the watched file
ChmodFile(p) ==
    /\ Live
    /\ nWrites < MaxWrites
    /\ p \in DOMAIN fs
    /\ Observed(p)
    /\ Emit(p, {"Chmod"})
    /\ nWrites' = nWrites + 1
    /\ UNCHANGED << Identifier, fs, dest, cfgPc, cfgRet, pkgRet, chanCap,
                    outBuf, outClosed, published, done, activeAtClose, skipped, watcher,
                    closeCalls, watchLocation, eventsClosed, errorsPending,
                    errorsClosed, loaderPc, loaderIdentifier, bgPc, located,
                    lastCall, heap, sources, merged, environ >>

\* the watcher reports an error on watcher.Errors()
OsError ==
    /\ watcher = "open"
    /\ ~errorsClosed
    /\ errorsPending < MaxErrors
    /\ errorsPending' = errorsPending + 1
    /\ UNCHANGED << Identifier, fs, dest, cfgPc, cfgRet, pkgRet, chanCap,
                    outBuf, outClosed, published, done, activeAtClose, skipped, watcher,
                    closeCalls, watchLocation, events, eventsClosed,
                    errorsClosed, loaderPc, loaderIdentifier, bgPc, nWrites, located,
                    lastCall, heap, sources, merged, environ, observed >>

\* the event source is closed from beneath the loop
CloseEvents ==
    /\ watcher = "open"
    /\ ~eventsClosed
    /\ eventsClosed' = TRUE
    /\ UNCHANGED << Identifier, fs, dest, cfgPc, cfgRet, pkgRet, chanCap,
                    outBuf, outClosed, published, done, activeAtClose, skipped, watcher,
                    closeCalls, watchLocation, events, errorsPending,
                    errorsClosed, loaderPc, loaderIdentifier, bgPc, nWrites, located,
                    lastCall, heap, sources, merged, environ, observed >>

\* the error source is closed from beneath the loop
CloseErrors ==
    /\ watcher = "open"
    /\ ~errorsClosed
    /\ errorsClosed' = TRUE
    /\ UNCHANGED << Identifier, fs, dest, cfgPc, cfgRet, pkgRet, chanCap,
                    outBuf, outClosed, published, done, activeAtClose, skipped, watcher,
                    closeCalls, watchLocation, events, eventsClosed,
                    errorsPending, loaderPc, loaderIdentifier, bgPc, nWrites, located,
                    lastCall, heap, sources, merged, environ, observed >>

\* the caller closes the done channel
CloseDone ==
    /\ done = "open"
    /\ done' = "closed"
    /\ activeAtClose' = (bgPc \in {"select", "cycle", "send"})
    /\ UNCHANGED << Identifier, fs, dest, cfgPc, cfgRet, pkgRet, chanCap,
                    outBuf, outClosed, published, skipped, watcher,
                    closeCalls, watchLocation, events, eventsClosed,
                    errorsPending, errorsClosed, loaderPc, loaderIdentifier,
                    bgPc, nWrites, located,
                    lastCall, heap, sources, merged, environ, observed >>

\* the consumer takes a buffered value from the output channel
ConsumerRecv ==
    /\ outBuf # <<>>
    /\ outBuf' = Tail(outBuf)
    /\ UNCHANGED << Identifier, fs, dest, cfgPc, cfgRet, pkgRet, chanCap,
                    outClosed, published, done, activeAtClose, skipped, watcher,
                    closeCalls, watchLocation, events, eventsClosed,
                    errorsPending, errorsClosed, loaderPc, loaderIdentifier, bgPc, nWrites,
                    located,
                    lastCall, heap, sources, merged, environ, observed >>

(***************************************************************************)
(* prefer.go: the package-level WatchWithDone and                          *)
(* Configuration.WatchWithDone up to the start of its goroutine.           *)
(***************************************************************************)
\* a send on the output channel can complete: on an unbuffered channel when
\* the consumer receives (it may at any time), else when the buffer has room
CanSend ==
    chanCap = 0 \/ Len(outBuf) < chanCap

\* channel <- dest
Send ==
    /\ CanSend
    /\ published' = Append(published, dest)
    /\ outBuf' = IF chanCap = 0 THEN outBuf ELSE Append(outBuf, dest)

\* WatchWithDone(identifier, dest, done): makes the channel, starts
\* configuration.WatchWithDone in a goroutine and returns (channel, nil)
PkgWatchWithDone ==
    /\ cfgPc = "call"
    /\ pkgRet = "pending"
    /\ pkgRet' = NoErr
    /\ cfgPc' = "reload"
    /\ UNCHANGED << Identifier, fs, dest, cfgRet, chanCap, outBuf, outClosed,
                    published, done, activeAtClose, skipped, watcher, closeCalls,
                    watchLocation, events, eventsClosed, errorsPending,
                    errorsClosed, loaderPc, loaderIdentifier, bgPc, nWrites,
                    located,
                    lastCall, heap, sources, merged, environ, observed >>

\* mutant: dest is sent although the initial Reload failed
ReturnReloadError_Published(err) ==
    /\ cfgPc' = "failedReload"
    /\ cfgRet' = err
    /\ published' = Append(published, dest)
    /\ outBuf' = Append(outBuf, dest)

\* if err := this.Reload(dest); err != nil { return err }
ReturnReloadError(err) ==
    /\ cfgPc' = "failedReload"
    /\ cfgRet' = err
    /\ UNCHANGED << outBuf, published >>

\* mutant: the watch is set up before the initial publish
AfterReloadOk_Setup == "setup"

\* the statement WatchWithDone runs next when the initial Reload succeeded
AfterReloadOk == "publish"

CfgReload ==
    /\ cfgPc = "reload"
    /\ \E r \in Reload(fs, Identifier, dest) :
        /\ Identifier' = r.Identifier
        /\ dest' = r.dest
        /\ IF r.err # NoErr
           THEN ReturnReloadError(r.err)
           ELSE /\ cfgPc' = AfterReloadOk
                /\ UNCHANGED << cfgRet, outBuf, published >>
    /\ UNCHANGED << fs, pkgRet, chanCap, outClosed, done, activeAtClose,
                    skipped, watcher, closeCalls, watchLocation, events,
                    eventsClosed, errorsPending, errorsClosed, loaderPc,
                    loaderIdentifier, bgPc, nWrites, located,
                    lastCall, heap, sources, merged, environ, observed >>

\* channel <- dest, the initial publish
CfgPublish ==
    /\ cfgPc = "publish"
    /\ Send
    /\ cfgPc' = "setup"
    /\ UNCHANGED << Identifier, fs, dest, cfgRet, pkgRet, chanCap, outClosed,
                    done, activeAtClose, skipped, watcher, closeCalls, watchLocation,
                    events, eventsClosed, errorsPending, errorsClosed,
                    loaderPc, loaderIdentifier, bgPc, nWrites, located,
                    lastCall, heap, sources, merged, environ, observed >>

\* mutant: the handle is not closed when watcher.Add fails
WatchWithContext_AddLeaks(fsys, identifier) ==
    { [err |-> "WatcherCreate", watcher |-> "none", closeCalls |-> 0,
       location |-> <<>>] }
    \cup
    { IF loc.err # NoErr
      THEN [err |-> loc.err, watcher |-> "closed", closeCalls |-> 1,
            location |-> <<>>]
      ELSE [err |-> NoErr, watcher |-> "open", closeCalls |-> 0,
            location |-> loc.path] : loc \in Locate(fsys, identifier) }
    \cup
    { [err |-> "WatcherAdd", watcher |-> "open", closeCalls |-> 0,
       location |-> <<>>] :
        loc \in { l \in Locate(fsys, identifier) : l.err = NoErr } }

\* FileLoader.WatchWithContext up to the start of its goroutine: the set of
\* outcomes.  newWatcher and watcher.Add fail or not as the system decides.
WatchWithContext(fsys, identifier) ==
    { [err |-> "WatcherCreate", watcher |-> "none", closeCalls |-> 0,
       location |-> <<>>] }
    \cup
    { IF loc.err # NoErr
      THEN [err |-> loc.err, watcher |-> "closed", closeCalls |-> 1,
            location |-> <<>>]
      ELSE [err |-> NoErr, watcher |-> "open", closeCalls |-> 0,
            location |-> loc.path] : loc \in Locate(fsys, identifier) }
    \cup
    { [err |-> "WatcherAdd", watcher |-> "closed", closeCalls |-> 1,
       location |-> <<>>] :
        loc \in { l \in Locate(fsys, identifier) : l.err = NoErr } }

\* what WatchWithDone does to the output channel when watch setup fails
SetupFailed ==
    UNCHANGED outClosed

\* loader, err := NewLoader(this.Identifier); loader.WatchWithContext(update, done)
CfgSetup ==
    /\ cfgPc = "setup"
    /\ LET loader == NewLoader(Identifier)
       IN  IF loader.err # NoErr
           THEN /\ cfgPc' = "failedSetup"
                /\ cfgRet' = loader.err
                /\ SetupFailed
                /\ UNCHANGED << watcher, closeCalls, watchLocation, loaderPc,
                                loaderIdentifier >>
           ELSE \E w \in WatchWithContext(fs, loader.identifier) :
                /\ watcher' = w.watcher
                /\ closeCalls' = w.closeCalls
                /\ watchLocation' = w.location
                /\ loaderIdentifier' = loader.identifier
                /\ IF w.err # NoErr
                   THEN /\ cfgPc' = "failedSetup"
                        /\ cfgRet' = w.err
                        /\ SetupFailed
                        /\ UNCHANGED loaderPc
                   ELSE /\ cfgPc' = "spawn"
                        /\ loaderPc' = "select"
                        /\ UNCHANGED << cfgRet, outClosed >>
    /\ UNCHANGED << Identifier, fs, dest, pkgRet, chanCap, outBuf, published,
                    done, activeAtClose, skipped, events, eventsClosed, errorsPending,
                    errorsClosed, bgPc, nWrites, located,
                    lastCall, heap, sources, merged, environ, observed >>

\* go func() { ... }(); return nil
CfgSpawn ==
    /\ cfgPc = "spawn"
    /\ bgPc' = "select"
    /\ cfgPc' = "returned"
    /\ cfgRet' = NoErr
    /\ UNCHANGED << Identifier, fs, dest, pkgRet, chanCap, outBuf, outClosed,
                    published, done, activeAtClose, skipped, watcher, closeCalls,
                    watchLocation, events, eventsClosed, errorsPending,
                    errorsClosed, loaderPc, loaderIdentifier, nWrites,
                    located,
                    lastCall, heap, sources, merged, environ, observed >>

(***************************************************************************)
(* loaders.go: the goroutine of FileLoader.WatchWithContext.               *)
(***************************************************************************)
\* event.Op&(fsnotify.Write|fsnotify.Create) != 0
Notifies(op) == op \cap {"Write", "Create"} # {}

\* mutant: the loop notifies whatever the operation of the event
AfterEvent_AnyOp(op) == "send"

\* where the loop goes after it has received an event
AfterEvent(op) == IF Notifies(op) THEN "send" ELSE "select"

\* mutant: the loop returns without closing the handle
LoopReturn_NoClose ==
    /\ loaderPc' = "exited"
    /\ UNCHANGED << watcher, closeCalls >>

\* return, with the deferred watcher.Close()
LoopReturn ==
    /\ loaderPc' = "exited"
    /\ watcher' = "closed"
    /\ closeCalls' = closeCalls + 1

\* case event, ok := <-watcher.Events(), ok
LoaderEvent ==
    /\ loaderPc = "select"
    /\ events # <<>>
    /\ events' = Tail(events)
    /\ loaderPc' = AfterEvent(Head(events))
    /\ UNCHANGED << Identifier, fs, dest, cfgPc, cfgRet, pkgRet, chanCap,
                    outBuf, outClosed, published, done, activeAtClose, skipped, watcher,
                    closeCalls, watchLocation, eventsClosed, errorsPending,
                    errorsClosed, loaderIdentifier, bgPc, nWrites, located,
                    lastCall, heap, sources, merged, environ, observed >>

\* case event, ok := <-watcher.Events(), !ok
LoaderEventsClosed ==
    /\ loaderPc = "select"
    /\ events = <<>>
    /\ eventsClosed
    /\ LoopReturn
    /\ UNCHANGED << Identifier, fs, dest, cfgPc, cfgRet, pkgRet, chanCap,
                    outBuf, outClosed, published, done, activeAtClose, skipped,
                    watchLocation, events, eventsClosed, errorsPending,
                    errorsClosed, loaderIdentifier, bgPc, nWrites, located,
                    lastCall, heap, sources, merged, environ, observed >>

\* mutant: a value received from watcher.Errors() ends the loop
AfterError_Returns == LoopReturn

\* what the loop does with a value received from watcher.Errors()
AfterError ==
    UNCHANGED << loaderPc, watcher, closeCalls >>

\* case _, ok := <-watcher.Errors(), ok
LoaderError ==
    /\ loaderPc = "select"
    /\ errorsPending > 0
    /\ errorsPending' = errorsPending - 1
    /\ AfterError
    /\ UNCHANGED << Identifier, fs, dest, cfgPc, cfgRet, pkgRet, chanCap,
                    outBuf, outClosed, published, done, activeAtClose, skipped,
                    watchLocation, events, eventsClosed, errorsClosed,
                    loaderIdentifier, bgPc, nWrites, located,
                    lastCall, heap, sources, merged, environ, observed >>

\* case _, ok := <-watcher.Errors(), !ok
LoaderErrorsClosed ==
    /\ loaderPc = "select"
    /\ errorsPending = 0
    /\ errorsClosed
    /\ LoopReturn
    /\ UNCHANGED << Identifier, fs, dest, cfgPc, cfgRet, pkgRet, chanCap,
                    outBuf, outClosed, published, done, activeAtClose, skipped,
                    watchLocation, events, eventsClosed, errorsPending,
                    errorsClosed, loaderIdentifier, bgPc, nWrites, located,
                    lastCall, heap, sources, merged, environ, observed >>

\* case <-done (only in the select of the done != nil branch)
LoaderDone ==
    /\ loaderPc = "select"
    /\ done = "closed"
    /\ LoopReturn
    /\ UNCHANGED << Identifier, fs, dest, cfgPc, cfgRet, pkgRet, chanCap,
                    outBuf, outClosed, published, done, activeAtClose, skipped,
                    watchLocation, events, eventsClosed, errorsPending,
                    errorsClosed, loaderIdentifier, bgPc, nWrites, located,
                    lastCall, heap, sources, merged, environ, observed >>

(***************************************************************************)
(* prefer.go: the goroutine of Configuration.WatchWithDone.  The update    *)
(* channel is unbuffered, so the loader's `channel <- true` and the        *)
(* goroutine's `case _, ok := <-update` are one step.  No code closes the  *)
(* update channel, so the receive never sees !ok.                          *)
(***************************************************************************)
LoaderNotify ==
    /\ loaderPc = "send"
    /\ bgPc = "select"
    /\ loaderPc' = "select"
    /\ bgPc' = "cycle"
    /\ UNCHANGED << Identifier, fs, dest, cfgPc, cfgRet, pkgRet, chanCap,
                    outBuf, outClosed, published, done, activeAtClose, skipped, watcher,
                    closeCalls, watchLocation, events, eventsClosed,
                    errorsPending, errorsClosed, loaderIdentifier, nWrites,
                    located,
                    lastCall, heap, sources, merged, environ, observed >>

\* the body of the update case for one result of loader.Load()
Cycle(loaded, identifier, out) ==
    IF loaded.err # NoErr
    THEN [Identifier |-> identifier, dest |-> out, err |-> loaded.err]
    ELSE LET serializer == NewSerializer(loaded.identifier, loaded.content)
         IN  IF serializer.err # NoErr
             THEN [Identifier |-> identifier, dest |-> out,
                   err |-> serializer.err]
             ELSE LET d == Deserialize(serializer.codec, loaded.content, out)
                  IN  IF d.err # NoErr
                      THEN [Identifier |-> identifier, dest |-> d.dest,
                            err |-> d.err]
                      ELSE [Identifier |-> loaded.identifier,
                            dest |-> d.dest, err |-> NoErr]

\* mutant: a failed cycle ends the goroutine (`return err`)
AfterCycle_Return(err) ==
    IF err # NoErr THEN "exited" ELSE "send"

\* where the goroutine goes after a reload cycle: `continue` or the publish
AfterCycle(err) ==
    IF err # NoErr THEN "select" ELSE "send"

BgCycle ==
    /\ bgPc = "cycle"
    /\ \E loaded \in Load(fs, loaderIdentifier) :
        LET c == Cycle(loaded, Identifier, dest)
        IN  /\ Identifier' = c.Identifier
            /\ dest' = c.dest
            /\ bgPc' = AfterCycle(c.err)
            /\ skipped' = IF c.err # NoErr THEN skipped + 1 ELSE skipped
    /\ UNCHANGED << fs, cfgPc, cfgRet, pkgRet, chanCap, outBuf, outClosed,
                    published, done, activeAtClose, watcher, closeCalls,
                    watchLocation, events, eventsClosed, errorsPending,
                    errorsClosed, loaderPc, loaderIdentifier, nWrites,
                    located,
                    lastCall, heap, sources, merged, environ, observed >>

\* mutant: after its publish the goroutine publishes again
BgPublish_Again ==
    /\ bgPc = "send"
    /\ Send
    /\ bgPc' = "send"
    /\ UNCHANGED << Identifier, fs, dest, cfgPc, cfgRet, pkgRet, chanCap,
                    outClosed, done, activeAtClose, skipped, watcher, closeCalls,
                    watchLocation, events, eventsClosed, errorsPending,
                    errorsClosed, loaderPc, loaderIdentifier, nWrites,
                    located,
                    lastCall, heap, sources, merged, environ, observed >>

\* channel <- dest, at the end of a successful cycle
BgPublish ==
    /\ bgPc = "send"
    /\ Send
    /\ bgPc' = "select"
    /\ UNCHANGED << Identifier, fs, dest, cfgPc, cfgRet, pkgRet, chanCap,
                    outClosed, done, activeAtClose, skipped, watcher, closeCalls,
                    watchLocation, events, eventsClosed, errorsPending,
                    errorsClosed, loaderPc, loaderIdentifier, nWrites,
                    located,
                    lastCall, heap, sources, merged, environ, observed >>

\* case <-done: return, with the deferred close(channel)
BgDone ==
    /\ bgPc = "select"
    /\ done = "closed"
    /\ bgPc' = "exited"
    /\ outClosed' = TRUE
    /\ UNCHANGED << Identifier, fs, dest, cfgPc, cfgRet, pkgRet, chanCap,
                    outBuf, published, done, activeAtClose, skipped, watcher, closeCalls,
                    watchLocation, events, eventsClosed, errorsPending,
                    errorsClosed, loaderPc, loaderIdentifier, nWrites,
                    located,
                    lastCall, heap, sources, merged, environ, observed >>

(***************************************************************************)
(* The watch: a call of the package-level WatchWithDone (unbuffered        *)
(* channel) or of Configuration.WatchWithDone on a channel of the caller.  *)
(***************************************************************************)
NotLocated == [called |-> FALSE, path |-> <<>>, err |-> NoErr]

\* no call of Load, Reload or NewSerializer has been made
NoCall == [op |-> "none"]

\* the nil map: no map has been returned
NilMap == 0

Init ==
    /\ Identifier \in WatchIdentifiers
    /\ fs \in InitialFileSystems
    /\ dest = "zero"
    /\ pkgRet \in {"none", "pending"}
    /\ cfgPc = IF pkgRet = "pending" THEN "call" ELSE "reload"
    /\ cfgRet = "pending"
    /\ chanCap = IF pkgRet = "pending" THEN 0 ELSE 1
    /\ outBuf = <<>>
    /\ outClosed = FALSE
    /\ published = <<>>
    /\ done \in {"nil", "open"}
    /\ activeAtClose = FALSE
    /\ skipped = 0
    /\ watcher = "none"
    /\ closeCalls = 0
    /\ watchLocation = <<>>
    /\ events = <<>>
    /\ eventsClosed = FALSE
    /\ errorsPending = 0
    /\ errorsClosed = FALSE
    /\ loaderPc = "none"
    /\ loaderIdentifier = <<>>
    /\ bgPc = "none"
    /\ nWrites = 0
    /\ located = NotLocated
    /\ lastCall = NoCall
    /\ heap = <<>>
    /\ sources = <<>>
    /\ merged = NilMap
    /\ environ = <<>>
    /\ observed = 0

Environment ==
    \/ \E p \in WatchFiles, f \in WrittenFiles : WriteFile(p, f)
    \/ \E p \in WatchFiles : RemoveFile(p)
    \/ \E p \in WatchFiles : ChmodFile(p)
    \/ OsError
    \/ CloseEvents
    \/ CloseErrors
    \/ CloseDone
    \/ ConsumerRecv

Setup ==
    \/ PkgWatchWithDone
    \/ CfgReload
    \/ CfgPublish
    \/ CfgSetup
    \/ CfgSpawn

LoaderLoop ==
    \/ LoaderEvent
    \/ LoaderEventsClosed
    \/ LoaderError
    \/ LoaderErrorsClosed
    \/ LoaderDone
    \/ LoaderNotify

Goroutine ==
    \/ BgCycle
    \/ BgPublish
    \/ BgDone

Next == Environment \/ Setup \/ LoaderLoop \/ Goroutine

Spec == Init /\ [][Next]_vars

\* The Go scheduler runs every goroutine that can take a step, and the
\* consumer keeps receiving; the environment is free to do nothing.  A
\* select picks among its ready cases at random, so a case that is ready
\* again and again (done, once closed) is eventually taken.
FairSpec ==
    /\ Spec
    /\ WF_vars(Setup)
    /\ WF_vars(LoaderLoop)
    /\ WF_vars(Goroutine)
    /\ WF_vars(ConsumerRecv)
    /\ SF_vars(LoaderDone)
    /\ SF_vars(BgDone)

(***************************************************************************)
(* The claims about the watch.                                             *)
(***************************************************************************)
WatchActive == bgPc \in {"select", "cycle", "send"}

IsError(e) == e \notin {"pending", "none", NoErr}

\* C1: once done has been closed during an active watch, no value is
\* published on the output channel any more, and the output channel is
\* eventually closed.
C1_DoneStopsPublishing ==
    /\ [][(done = "closed" /\ activeAtClose) => published' = published]_vars
    /\ ((done = "closed" /\ activeAtClose) ~> outClosed)

\* the cycle a step of the goroutine out of "cycle" has run ended in an error
CycleFailed(loaded) ==
    \/ loaded.err # NoErr
    \/ NewSerializer(loaded.identifier, loaded.content).err # NoErr
    \/ Deserialize(NewSerializer(loaded.identifier, loaded.content).codec, loaded.content,
                   dest).err # NoErr

\* C2: a reload cycle whose Load, codec dispatch or Deserialize fails
\* publishes nothing, leaves the output channel open and puts the goroutine
\* back at its select; a cycle whose reload succeeds puts the decoded content
\* in dest and goes to the publish, which can be made as soon as the consumer
\* receives and whose send appends dest to the values published.
C2_FailedCycleSkipped ==
    /\ [][(bgPc = "cycle" /\ bgPc' # "cycle") =>
            \E loaded \in Load(fs, loaderIdentifier) :
                IF CycleFailed(loaded)
                THEN /\ bgPc' = "select"
                     /\ published' = published
                     /\ outBuf' = outBuf
                     /\ ~outClosed'
                ELSE /\ bgPc' = "send"
                     /\ dest' = loaded.content[2]
                     /\ published' = published]_vars
    /\ [][(bgPc = "send" /\ bgPc' # "send") =>
            (bgPc' = "select" /\ published' = Append(published, dest))]_vars
    /\ [](bgPc = "send" => ENABLED (BgPublish \/ ConsumerRecv))

\* C2 witness: after a skipped cycle the goroutine has published the new
\* content of a later write and is back at its select
C2_Witness ==
    /\ skipped >= 1
    /\ bgPc = "select"
    /\ Len(published) = 2
    /\ published[2] = "v2"
    /\ ~outClosed

\* C3: when watch setup fails under the package-level WatchWithDone, the
\* call itself has returned a non-nil error.
C3_SetupErrorReturned ==
    (pkgRet # "none" /\ IsError(cfgRet)) => IsError(pkgRet)

\* C4: when the initial Reload failed, WatchWithDone has returned that error,
\* nothing was sent on or done to the output channel, no watcher handle
\* exists and no goroutine was started.
C4_ReloadErrorTouchesNothing ==
    cfgPc = "failedReload" =>
        /\ IsError(cfgRet)
        /\ published = <<>>
        /\ outBuf = <<>>
        /\ ~outClosed
        /\ watcher = "none"
        /\ closeCalls = 0
        /\ loaderPc = "none"
        /\ bgPc = "none"

C4_Witness ==
    cfgPc = "failedReload" /\ cfgRet = "DeserializeError"

\* C5: when the initial Reload succeeded, dest has been published exactly
\* once before the watch is registered, before a goroutine is started and
\* before WatchWithDone returns.
C5_InitialPublishFirst ==
    /\ (\/ watcher # "none"
        \/ loaderPc # "none"
        \/ bgPc # "none"
        \/ cfgPc \in {"spawn", "returned", "failedSetup"}) =>
            Len(published) >= 1
    /\ cfgPc \in {"setup", "spawn"} => published = <<dest>>

C5_Witness ==
    /\ cfgPc = "setup"
    /\ published = <<"v1">>
    /\ watcher = "none"
    /\ bgPc = "none"

\* C6: when the watcher's event source or error source is closed during an
\* active watch, the goroutine of the Configuration eventually closes the
\* output channel, whether or not done is ever closed.
C6_SourceClosedEndsWatch ==
    ((eventsClosed \/ errorsClosed) /\ WatchActive) ~> outClosed

\* C7: a running watch loop owns one open handle, and once the loop has
\* terminated the handle has been closed, exactly once.
C7_HandleClosedOnce ==
    /\ loaderPc \in {"select", "send"} => (watcher = "open" /\ closeCalls = 0)
    /\ loaderPc = "exited" => (watcher = "closed" /\ closeCalls = 1)

C7_Witness ==
    /\ loaderPc = "exited"
    /\ errorsClosed
    /\ ~eventsClosed
    /\ done = "nil"
    /\ closeCalls = 1

\* C8: after done is closed the watch loop eventually terminates and
\* releases its handle.
C8_DoneReleasesHandle ==
    (done = "closed" /\ loaderPc \in {"select", "send"}) ~>
        (loaderPc = "exited" /\ watcher = "closed")

\* C9: when WatchWithDone has returned an error of the watch setup, after
\* the initial publish, the output channel has been closed.
C9_SetupErrorClosesChannel ==
    cfgPc = "failedSetup" => outClosed

(***************************************************************************)
(* FileLoader.Locate as a function of the identifier and the file system:  *)
(* the inputs are drawn by LocateInit and one call is made.                *)
(***************************************************************************)
LocateIdentifiers == { <<"cfg">>, <<"cfg", ".yaml">>, <<"/etc", "cfg">> }

\* the names Locate can try for an identifier below a base path
Candidates(base) ==
    {base} \cup { base \o <<e>> : e \in DOMAIN defaultSerializers }

\* every path Locate can stat for the identifier
LocateFiles(identifier) ==
    (IF IsAbs(identifier) THEN Candidates(identifier) ELSE {})
    \cup UNION { Candidates(Join(GetStandardPaths[i], identifier)) :
                    i \in 1..Len(GetStandardPaths) }

\* the subsets of S with at most k elements
RECURSIVE SubsetsUpTo(_, _)
SubsetsUpTo(S, k) ==
    IF k = 0 THEN {{}}
    ELSE LET smaller == SubsetsUpTo(S, k - 1)
         IN  smaller \cup { T \cup {x} : T \in smaller, x \in S }

LocateInit ==
    /\ Identifier \in LocateIdentifiers
    /\ \E T \in SubsetsUpTo(LocateFiles(Identifier), MaxFiles) :
            fs \in [T -> {JsonV1, StatErr}]
    /\ located = NotLocated
    /\ dest = "zero"
    /\ pkgRet = "none"
    /\ cfgPc = "none"
    /\ cfgRet = "none"
    /\ chanCap = 0
    /\ outBuf = <<>>
    /\ outClosed = FALSE
    /\ published = <<>>
    /\ done = "nil"
    /\ activeAtClose = FALSE
    /\ skipped = 0
    /\ watcher = "none"
    /\ closeCalls = 0
    /\ watchLocation = <<>>
    /\ events = <<>>
    /\ eventsClosed = FALSE
    /\ errorsPending = 0
    /\ errorsClosed = FALSE
    /\ loaderPc = "none"
    /\ loaderIdentifier = <<>>
    /\ bgPc = "none"
    /\ nWrites = 0
    /\ lastCall = NoCall
    /\ heap = <<>>
    /\ sources = <<>>
    /\ merged = NilMap
    /\ environ = <<>>
    /\ observed = 0

\* FileLoader{identifier: Identifier}.Locate()
DoLocate ==
    /\ ~located.called
    /\ \E r \in Locate(fs, Identifier) :
        located' = [called |-> TRUE, path |-> r.path, err |-> r.err]
    /\ UNCHANGED << Identifier, fs, dest, cfgPc, cfgRet, pkgRet, chanCap,
                    outBuf, outClosed, published, done, activeAtClose,
                    skipped, watcher, closeCalls, watchLocation, events,
                    eventsClosed, errorsPending, errorsClosed, loaderPc,
                    loaderIdentifier, bgPc, nWrites,
                    lastCall, heap, sources, merged, environ, observed >>

LocateNext == DoLocate

LocateSpec == LocateInit /\ [][LocateNext]_vars

\* directory number i holds the identifier, as it is or with an extension
Exact(i) == Join(GetStandardPaths[i], Identifier)

DirHasMatch(i) == Candidates(Exact(i)) \cap DOMAIN fs # {}

MatchingDirs == { i \in 1..Len(GetStandardPaths) : DirHasMatch(i) }

\* C10: for a non-absolute identifier Locate returns a candidate that exists
\* in the first standard directory that holds any candidate, the exact name
\* when that directory holds it and else the name with a registered
\* extension; NotFound is returned exactly when no directory holds one.
C10_LocateDirectoryOrder ==
    (located.called /\ ~IsAbs(Identifier)) =>
        IF MatchingDirs = {}
        THEN located.err = "NotFound" /\ located.path = <<>>
        ELSE LET first == CHOOSE i \in MatchingDirs :
                            \A j \in MatchingDirs : i <= j
             IN  /\ located.err # "NotFound"
                 /\ located.path \in Candidates(Exact(first)) \cap DOMAIN fs
                 /\ Exact(first) \in DOMAIN fs => located.path = Exact(first)

\* C10 witness: an extension match in the first directory is returned while
\* a later directory holds the exact name
C10_Witness ==
    /\ located.called
    /\ Identifier = <<"cfg">>
    /\ located.path = <<"cfg", ".yaml">>
    /\ <<"/wd", "cfg">> \in DOMAIN fs

\* C11: for an absolute identifier Locate returns the identifier itself when
\* it exists, else an existing identifier+extension, and else NotFound, no
\* matter what the standard directories hold.
C11_AbsoluteNeverSearchesDirectories ==
    (located.called /\ IsAbs(Identifier)) =>
        IF Identifier \in DOMAIN fs
        THEN located.path = Identifier
        ELSE IF Candidates(Identifier) \cap DOMAIN fs # {}
        THEN located.path \in Candidates(Identifier) \cap DOMAIN fs
        ELSE located.err = "NotFound" /\ located.path = <<>>

(***************************************************************************)
(* FileLoader.Load, Configuration.Reload and NewSerializer as functions of *)
(* the identifier and the file system: LoadInit draws the inputs, and one  *)
(* call of each is made.                                                   *)
(***************************************************************************)
MaxLen == 3

YamlV1 == [kind |-> "file", data |-> <<"y", "v1", "LF">>]

LoadIdentifiers == { <<>>, <<"cfg">>, <<"cfg", ".txt">>, <<"cfg", ".yaml">> }

LoadPaths ==
    { <<"cfg">>, <<"cfg", ".yaml">>, <<"cfg", ".txt">>,
      <<"/etc", "cfg", ".json">> }

\* the bytes of a file: document tokens, line feed, carriage return and a
\* run of 64K bytes without a line feed
Bytes == { "j", "v1", "LF", "CR", "BIG" }

\* the byte sequences of at most n bytes
RECURSIVE BytesUpTo(_)
BytesUpTo(n) ==
    IF n = 0 THEN { <<>> }
    ELSE BytesUpTo(n - 1)
         \cup { Append(d, b) : d \in BytesUpTo(n - 1), b \in Bytes }

\* up to MaxFiles files that hold a document, cannot be opened or cannot be
\* examined, or one file of any content
LoadFileSystems ==
    UNION { [T -> {JsonV1, YamlV1, NoPerm, StatErr}] :
                T \in SubsetsUpTo(LoadPaths, MaxFiles) }
    \cup { [p \in {q} |-> [kind |-> "file", data |-> d]] :
                q \in LoadPaths, d \in BytesUpTo(MaxLen) }

\* no watch has been started
WatchIdle ==
    /\ pkgRet = "none"
    /\ cfgPc = "none"
    /\ cfgRet = "none"
    /\ chanCap = 0
    /\ outBuf = <<>>
    /\ outClosed = FALSE
    /\ published = <<>>
    /\ done = "nil"
    /\ activeAtClose = FALSE
    /\ skipped = 0
    /\ watcher = "none"
    /\ closeCalls = 0
    /\ watchLocation = <<>>
    /\ events = <<>>
    /\ eventsClosed = FALSE
    /\ errorsPending = 0
    /\ errorsClosed = FALSE
    /\ loaderPc = "none"
    /\ loaderIdentifier = <<>>
    /\ bgPc = "none"
    /\ nWrites = 0

LoadInit ==
    /\ Identifier \in LoadIdentifiers
    /\ fs \in LoadFileSystems
    /\ dest = "zero"
    /\ located = NotLocated
    /\ lastCall = NoCall
    /\ heap = <<>>
    /\ sources = <<>>
    /\ merged = NilMap
    /\ environ = <<>>
    /\ observed = 0
    /\ WatchIdle

\* loader, err := NewLoader(Identifier); loader.Locate()
LoaderLocate ==
    /\ NewLoader(Identifier).err = NoErr
    /\ DoLocate

\* loader, err := NewLoader(Identifier); loader.Load()
DoLoad ==
    /\ lastCall = NoCall
    /\ NewLoader(Identifier).err = NoErr
    /\ \E r \in Load(fs, NewLoader(Identifier).identifier) :
        lastCall' = [op |-> "Load", arg |-> Identifier,
                     identifier |-> r.identifier, content |-> r.content,
                     err |-> r.err, opened |-> r.opened]
    /\ UNCHANGED << Identifier, fs, dest, cfgPc, cfgRet, pkgRet, chanCap,
                    outBuf, outClosed, published, done, activeAtClose,
                    skipped, watcher, closeCalls, watchLocation, events,
                    eventsClosed, errorsPending, errorsClosed, loaderPc,
                    loaderIdentifier, bgPc, nWrites, located,
                    heap, sources, merged, environ, observed >>

\* NewConfiguration(Identifier).Reload(&dest)
DoReload ==
    /\ lastCall = NoCall
    /\ \E r \in Reload(fs, Identifier, dest) :
        /\ Identifier' = r.Identifier
        /\ dest' = r.dest
        /\ lastCall' = [op |-> "Reload", arg |-> Identifier, err |-> r.err,
                        opened |-> r.opened]
    /\ UNCHANGED << fs, cfgPc, cfgRet, pkgRet, chanCap,
                    outBuf, outClosed, published, done, activeAtClose,
                    skipped, watcher, closeCalls, watchLocation, events,
                    eventsClosed, errorsPending, errorsClosed, loaderPc,
                    loaderIdentifier, bgPc, nWrites, located,
                    heap, sources, merged, environ, observed >>

\* the contents NewSerializer is called with: nothing, or the bytes of a file
SerializerContents ==
    { <<>> } \cup { fs[p].data : p \in { q \in DOMAIN fs : fs[q].kind = "file" } }

\* NewSerializer(Identifier, content)
DoNewSerializer ==
    /\ lastCall = NoCall
    /\ \E content \in SerializerContents :
        LET serializer == NewSerializer(Identifier, content)
        IN  lastCall' = [op |-> "NewSerializer", arg |-> Identifier,
                         content |-> content, codec |-> serializer.codec,
                         err |-> serializer.err,
                         message |-> serializer.message]
    /\ UNCHANGED << Identifier, fs, dest, cfgPc, cfgRet, pkgRet, chanCap,
                    outBuf, outClosed, published, done, activeAtClose,
                    skipped, watcher, closeCalls, watchLocation, events,
                    eventsClosed, errorsPending, errorsClosed, loaderPc,
                    loaderIdentifier, bgPc, nWrites, located,
                    heap, sources, merged, environ, observed >>

LoadNext == LoaderLocate \/ DoLoad \/ DoReload \/ DoNewSerializer

LoadSpec == LoadInit /\ [][LoadNext]_vars

(***************************************************************************)
(* The claims about Load, Reload and NewSerializer.                        *)
(***************************************************************************)
\* Identifier still is the identifier the calls were made with
IdentifierKept == lastCall.op # "Reload"

\* C12: a file whose stat fails with another error than not-found counts as
\* existing: checkFileExists returns (true, err); Locate treats it like any
\* existing candidate, so it returns a candidate of the first directory
\* that holds one (the exact name before the extensions), and the error it
\* returns is the stat error of exactly that path; Load returns a stat
\* error of Locate without opening a file.
C12_StatErrorCountsAsExisting ==
    /\ \A p \in DOMAIN fs :
            fs[p].kind = "staterr" =>
                checkFileExists(fs, p) = [exists |-> TRUE, err |-> "StatError"]
    /\ (located.called /\ IdentifierKept /\ MatchingDirs # {}) =>
            LET first == CHOOSE i \in MatchingDirs :
                            \A j \in MatchingDirs : i <= j
            IN  /\ located.path \in Candidates(Exact(first)) \cap DOMAIN fs
                /\ Exact(first) \in DOMAIN fs => located.path = Exact(first)
                /\ located.err = "StatError"
                        <=> fs[located.path].kind = "staterr"
    /\ lastCall.op = "Load" =>
            /\ lastCall.err = "StatError" =>
                    /\ ~lastCall.opened
                    /\ lastCall.identifier = <<>>
                    /\ lastCall.content = <<>>
            /\ (\A loc \in Locate(fs, lastCall.arg) : loc.err = "StatError")
                    => lastCall.err = "StatError"

\* C12 witness: Locate and Load have stopped at "cfg", whose stat fails,
\* although "cfg.yaml" holds a document
C12_Witness ==
    /\ Identifier = <<"cfg">>
    /\ <<"cfg">> \in DOMAIN fs /\ fs[<<"cfg">>] = StatErr
    /\ <<"cfg", ".yaml">> \in DOMAIN fs /\ fs[<<"cfg", ".yaml">>] = YamlV1
    /\ located = [called |-> TRUE, path |-> <<"cfg">>, err |-> "StatError"]
    /\ lastCall.op = "Load"
    /\ lastCall.err = "StatError"

\* C13: a successful Load returns the path Locate chose and exactly the
\* bytes of that file, line terminators included, whatever the length of
\* its lines.
C13_LoadReturnsFileBytes ==
    (lastCall.op = "Load" /\ lastCall.err = NoErr) =>
        \E loc \in Locate(fs, lastCall.arg) :
            /\ loc.err = NoErr
            /\ lastCall.identifier = loc.path
            /\ lastCall.content = fs[loc.path].data

\* the codec registered for the extension of a path, "none" without one
CodecOf(location) ==
    IF Ext(location) \in DOMAIN defaultSerializers
    THEN defaultSerializers[Ext(location)]
    ELSE "none"

\* the bytes Load returned decode under the codec of the path it resolved
Decodes(l) ==
    /\ l.err = NoErr
    /\ CodecOf(l.identifier) # "none"
    /\ Deserialize(CodecOf(l.identifier), l.content, "zero").err = NoErr

\* C14: Reload succeeds when Load succeeds and the loaded bytes decode under
\* the codec registered for the extension of the resolved path; it then has
\* set Identifier to the resolved path and dest to the decoded value.
C14_ReloadUsesResolvedPath ==
    lastCall.op = "Reload" =>
        \E l \in Load(fs, lastCall.arg) :
            IF lastCall.arg # <<>> /\ Decodes(l)
            THEN /\ lastCall.err = NoErr
                 /\ Identifier = l.identifier
                 /\ dest = Deserialize(CodecOf(l.identifier), l.content,
                                       "zero").dest
            ELSE lastCall.err # NoErr

\* C14 witness: the bare name "cfg" was resolved to "cfg.yaml" and its YAML
\* document decoded
C14_Witness ==
    /\ lastCall.op = "Reload"
    /\ lastCall.arg = <<"cfg">>
    /\ lastCall.err = NoErr
    /\ Identifier = <<"cfg", ".yaml">>
    /\ fs[Identifier] = YamlV1
    /\ dest = "v1"

\* C15: NewSerializer returns the codec registered for the extension of
\* the identifier, whatever the content is; for an extension that is not
\* registered, or none, it returns no codec and an error whose message
\* names the identifier.
C15_CodecByExtensionOnly ==
    lastCall.op = "NewSerializer" =>
        LET extension == Ext(lastCall.arg)
        IN  CASE extension = ".json" ->
                    lastCall.codec = "JSON" /\ lastCall.err = NoErr
              [] extension \in {".yml", ".yaml"} ->
                    lastCall.codec = "YAML" /\ lastCall.err = NoErr
              [] extension = ".xml" ->
                    lastCall.codec = "XML" /\ lastCall.err = NoErr
              [] extension = ".ini" ->
                    lastCall.codec = "INI" /\ lastCall.err = NoErr
              [] OTHER ->
                    /\ lastCall.codec = "none"
                    /\ lastCall.err = "NoMatchingCodec"
                    /\ lastCall.message
                            = <<"No matching serializer for ">> \o lastCall.arg

\* C15 witness: an identifier ending in ".yaml" was given the YAML codec
\* although the content is a JSON document
C15_Witness ==
    /\ lastCall.op = "NewSerializer"
    /\ lastCall.arg = <<"cfg", ".yaml">>
    /\ lastCall.content = <<"j", "v1", "LF">>
    /\ lastCall.codec = "YAML"

\* C16: NewLoader rejects the empty identifier and returns no loader; a
\* Reload with an empty Identifier returns that error without opening a
\* file and without changing dest; and a Configuration.WatchWithDone with
\* an empty Identifier has returned that error, having published nothing,
\* decoded nothing, created no watcher and started no goroutine.
C16_EmptyIdentifierRejected ==
    /\ NewLoader(<<>>) = [identifier |-> <<>>, err |-> "EmptyIdentifier"]
    /\ \A r \in Reload(fs, <<>>, dest) :
            /\ r.err = "EmptyIdentifier"
            /\ ~r.opened
            /\ r.dest = dest
            /\ r.Identifier = <<>>
    /\ (Identifier = <<>> /\ cfgPc \notin {"call", "reload"}) =>
            /\ cfgPc = "failedReload"
            /\ cfgRet = "EmptyIdentifier"
            /\ dest = "zero"
            /\ published = <<>>
            /\ outBuf = <<>>
            /\ ~outClosed
            /\ watcher = "none"
            /\ loaderPc = "none"
            /\ bgPc = "none"

\* C16 witness: WatchWithDone with an empty Identifier has returned the
\* error while a configuration file exists
C16_Witness ==
    /\ Identifier = <<>>
    /\ cfgPc = "failedReload"
    /\ cfgRet = "EmptyIdentifier"
    /\ <<"cfg", ".json">> \in DOMAIN fs

(***************************************************************************)
(* pathing.go: DeepMerge and ConfigBuilder.Build.  A Go map is a reference *)
(* to a table in the heap; a value of type interface{} is a scalar, a      *)
(* slice or a reference to another map.                                    *)
(***************************************************************************)
MaxEntries == 4

Keys == { "k1", "k2" }

Scalar(s) == [kind |-> "scalar", s |-> s]

List(l) == [kind |-> "list", l |-> l]

\* a map held as a value in a tree
MapValue(t) == [kind |-> "map", m |-> t]

\* a map held as a value in the heap
MapRef(r) == [kind |-> "map", ref |-> r]

Leaves == { Scalar("s1"), Scalar("s2"), List(<<"s1">>) }

\* the number of key/value entries of a tree, at all levels
RECURSIVE Size(_)
Size(t) ==
    IF DOMAIN t = {} THEN 0
    ELSE LET k == CHOOSE x \in DOMAIN t : TRUE
         IN  1 + (IF t[k].kind = "map" THEN Size(t[k].m) ELSE 0)
               + Size([x \in DOMAIN t \ {k} |-> t[x]])

\* the map literals of at most n entries
RECURSIVE TreesUpTo(_)
TreesUpTo(n) ==
    IF n = 0 THEN { <<>> }
    ELSE LET vals == Leaves \cup { MapValue(t) : t \in TreesUpTo(n - 1) }
         IN  { t \in UNION { [K -> vals] : K \in SUBSET Keys } : Size(t) <= n }

TreeTable == [n \in 0..MaxEntries |-> TreesUpTo(n)]

\* m[k] = v on the map at reference r
Put(h, r, k, v) ==
    [h EXCEPT ![r] = [x \in DOMAIN h[r] \cup {k} |->
                        IF x = k THEN v ELSE h[r][x]]]

\* the evaluation of a map literal: its maps are allocated in the heap
RECURSIVE Store(_, _)
RECURSIVE StoreKeys(_, _, _, _)
StoreKeys(h, r, t, keys) ==
    IF keys = {} THEN [heap |-> h, ref |-> r]
    ELSE LET k == CHOOSE x \in keys : TRUE
         IN  IF t[k].kind = "map"
             THEN LET sub == Store(h, t[k].m)
                  IN  StoreKeys(Put(sub.heap, r, k, MapRef(sub.ref)), r, t,
                                keys \ {k})
             ELSE StoreKeys(Put(h, r, k, t[k]), r, t, keys \ {k})

Store(h, t) == StoreKeys(Append(h, <<>>), Len(h) + 1, t, DOMAIN t)

\* the tree a map of the heap holds
RECURSIVE Tree(_, _)
Tree(h, r) ==
    [k \in DOMAIN h[r] |->
        IF h[r][k].kind = "map"
        THEN MapValue(Tree(h, h[r][k].ref))
        ELSE h[r][k]]

RECURSIVE DeepMerge(_, _, _)
RECURSIVE MergeKeys(_, _, _, _)

\* mutant: a value of override always replaces the value of base
RECURSIVE MergeKeys_Shallow(_, _, _, _)
MergeKeys_Shallow(h, result, override, keys) ==
    IF keys = {} THEN [heap |-> h, result |-> result]
    ELSE LET k == CHOOSE x \in keys : TRUE
         IN  MergeKeys_Shallow(Put(h, result, k, h[override][k]), result,
                               override, keys \ {k})

\* mutant: a key of override that base does not hold is not added
RECURSIVE MergeKeys_ExistingOnly(_, _, _, _)
MergeKeys_ExistingOnly(h, result, override, keys) ==
    IF keys = {} THEN [heap |-> h, result |-> result]
    ELSE LET k == CHOOSE x \in keys : TRUE
             v == h[override][k]
         IN  IF k \notin DOMAIN h[result]
             THEN MergeKeys_ExistingOnly(h, result, override, keys \ {k})
             ELSE IF h[result][k].kind = "map" /\ v.kind = "map"
             THEN LET sub == DeepMerge(h, h[result][k].ref, v.ref)
                  IN  MergeKeys_ExistingOnly(
                          Put(sub.heap, result, k, MapRef(sub.result)),
                          result, override, keys \ {k})
             ELSE MergeKeys_ExistingOnly(Put(h, result, k, v), result,
                                         override, keys \ {k})

\* `for k, v := range override`, for the keys not yet visited.  The order of
\* the visits is not specified; the keys are independent of one another, so
\* it decides only which reference a new nested map gets.
MergeKeys(h, result, override, keys) ==
    IF keys = {} THEN [heap |-> h, result |-> result]
    ELSE LET k == CHOOSE x \in keys : TRUE
             v == h[override][k]
         IN  IF /\ k \in DOMAIN h[result]
                /\ h[result][k].kind = "map"
                /\ v.kind = "map"
             THEN LET sub == DeepMerge(h, h[result][k].ref, v.ref)
                  IN  MergeKeys(Put(sub.heap, result, k, MapRef(sub.result)),
                                result, override, keys \ {k})
             ELSE MergeKeys(Put(h, result, k, v), result, override,
                            keys \ {k})

\* mutant: override is merged into base itself
DeepMerge_InPlace(h, base, override) ==
    MergeKeys(h, base, override, DOMAIN h[override])

\* result := make(map); the copy of base; the merge of override
DeepMerge(h, base, override) ==
    MergeKeys(Append(h, h[base]), Len(h) + 1, override, DOMAIN h[override])

\* the Source values: &MemorySource{data}, &FileSource{identifier, required}
MemorySource(data) == [kind |-> "memory", data |-> data]

FileSource(identifier, required) ==
    [kind |-> "file", identifier |-> identifier, required |-> required]

\* MemorySource.Load: a copy of the top level of the source's data
MemorySourceLoad(h, data) ==
    [heap |-> Append(h, h[data]), result |-> Len(h) + 1, err |-> NoErr]

\* The codecs are external: the tree a codec decodes a document value to.
DocTree ==
    [v \in DocValues |->
        IF v = "v1" THEN [k \in {"k1"} |-> Scalar("s1")]
        ELSE [k \in {"k1"} |-> MapValue([j \in {"k2"} |-> Scalar("s2")])]]

\* mutant: an optional file that fails to load fails like a required one
FileSourceLoadAt_Propagates(h, loaded, required) ==
    IF loaded.err # NoErr
    THEN [heap |-> h, result |-> NilMap, err |-> loaded.err]
    ELSE LET stored == Store(h, DocTree[loaded.dest])
         IN  [heap |-> stored.heap, result |-> stored.ref, err |-> NoErr]

\* FileSource.Load for one outcome of Load(s.identifier, &result)
FileSourceLoadAt(h, loaded, required) ==
    IF loaded.err # NoErr
    THEN IF ~required
         THEN [heap |-> Append(h, <<>>), result |-> Len(h) + 1, err |-> NoErr]
         ELSE [heap |-> h, result |-> NilMap, err |-> loaded.err]
    ELSE LET stored == Store(h, DocTree[loaded.dest])
         IN  [heap |-> stored.heap, result |-> stored.ref, err |-> NoErr]

\* FileSource.Load: the package-level Load is NewConfiguration and Reload
FileSourceLoad(h, fsys, source) ==
    { FileSourceLoadAt(h, loaded, source.required) :
        loaded \in Reload(fsys, source.identifier, "zero") }

\* &EnvSource{prefix, separator}
EnvSource(prefix, separator) ==
    [kind |-> "env", prefix |-> prefix, separator |-> separator]

(* A string of the environment is a sequence of characters.               *)
\* strings.Index from position i on: where sep begins in s, 0 when nowhere
RECURSIVE IndexFrom(_, _, _)
IndexFrom(s, sep, i) ==
    IF i + Len(sep) - 1 > Len(s) THEN 0
    ELSE IF SubSeq(s, i, i + Len(sep) - 1) = sep THEN i
    ELSE IndexFrom(s, sep, i + 1)

\* strings.SplitN(s, sep, 2) for a separator of one character or more
SplitN2(s, sep) ==
    LET i == IndexFrom(s, sep, 1)
    IN  IF i = 0 THEN << s >>
        ELSE << SubSeq(s, 1, i - 1), SubSeq(s, i + Len(sep), Len(s)) >>

\* strings.Split: with the empty separator a string splits into its
\* characters
RECURSIVE Split(_, _)
Split(s, sep) ==
    IF sep = <<>> THEN [i \in 1..Len(s) |-> << s[i] >>]
    ELSE LET parts == SplitN2(s, sep)
         IN  IF Len(parts) = 1 THEN parts
             ELSE << parts[1] >> \o Split(parts[2], sep)

HasPrefix(s, prefix) ==
    Len(s) >= Len(prefix) /\ SubSeq(s, 1, Len(prefix)) = prefix

TrimPrefix(s, prefix) ==
    IF HasPrefix(s, prefix) THEN SubSeq(s, Len(prefix) + 1, Len(s)) ELSE s

LowerOf(c) ==
    CASE c = "P" -> "p"
      [] c = "Q" -> "q"
      [] c = "D" -> "d"
      [] c = "H" -> "h"
      [] OTHER   -> c

ToLower(s) == [i \in 1..Len(s) |-> LowerOf(s[i])]

\* setNested from part number i on, current being the map reached so far
RECURSIVE setNestedFrom(_, _, _, _, _)
setNestedFrom(h, current, parts, i, value) ==
    IF i > Len(parts) THEN h
    ELSE IF i = Len(parts) THEN Put(h, current, parts[i], value)
    ELSE LET part == parts[i]
             made == IF part \notin DOMAIN h[current]
                     THEN Put(Append(h, <<>>), current, part,
                              MapRef(Len(h) + 1))
                     ELSE h
         IN  IF made[current][part].kind = "map"
             THEN setNestedFrom(made, made[current][part].ref, parts, i + 1,
                                value)
             ELSE setNestedFrom(Put(Append(made, <<>>), current, part,
                                    MapRef(Len(made) + 1)),
                                Len(made) + 1, parts, i + 1, value)

setNested(h, data, parts, value) == setNestedFrom(h, data, parts, 1, value)

\* mutant: the remainder of the name is not lower-cased
keyParts_NoLower(key, source) ==
    Split(TrimPrefix(key, source.prefix \o source.separator),
          source.separator)

\* key = TrimPrefix(key, prefix); key = ToLower(key); Split(key, separator)
keyParts(key, source) ==
    Split(ToLower(TrimPrefix(key, source.prefix \o source.separator)),
          source.separator)

\* mutant: the loop ends after the first entry it stores
RECURSIVE EnvLoadFrom_FirstOnly(_, _, _, _, _)
EnvLoadFrom_FirstOnly(h, result, env, source, index) ==
    IF index > Len(env) THEN [heap |-> h, result |-> result, err |-> NoErr]
    ELSE LET parts == SplitN2(env[index], << "=" >>)
         IN  IF Len(parts) # 2
             THEN EnvLoadFrom_FirstOnly(h, result, env, source, index + 1)
             ELSE IF ~HasPrefix(parts[1], source.prefix \o source.separator)
             THEN EnvLoadFrom_FirstOnly(h, result, env, source, index + 1)
             ELSE [heap |-> setNested(h, result, keyParts(parts[1], source),
                                      Scalar(parts[2])),
                   result |-> result, err |-> NoErr]

\* `for _, env := range os.Environ()`, from entry number index on
RECURSIVE EnvLoadFrom(_, _, _, _, _)
EnvLoadFrom(h, result, env, source, index) ==
    IF index > Len(env) THEN [heap |-> h, result |-> result, err |-> NoErr]
    ELSE LET parts == SplitN2(env[index], << "=" >>)
         IN  IF Len(parts) # 2
             THEN EnvLoadFrom(h, result, env, source, index + 1)
             ELSE IF ~HasPrefix(parts[1], source.prefix \o source.separator)
             THEN EnvLoadFrom(h, result, env, source, index + 1)
             ELSE EnvLoadFrom(
                      setNested(h, result, keyParts(parts[1], source),
                                Scalar(parts[2])),
                      result, env, source, index + 1)

\* EnvSource.Load
EnvSourceLoad(h, env, source) ==
    EnvLoadFrom(Append(h, <<>>), Len(h) + 1, env, source, 1)

\* source.Load(): the set of outcomes
SourceLoad(h, fsys, env, source) ==
    IF source.kind = "memory" THEN { MemorySourceLoad(h, source.data) }
    ELSE IF source.kind = "env" THEN { EnvSourceLoad(h, env, source) }
    ELSE FileSourceLoad(h, fsys, source)

\* mutant: the data of a source is merged under what was merged before
RECURSIVE BuildFrom_EarlierWins(_, _, _, _, _, _)
BuildFrom_EarlierWins(h, fsys, env, m, srcs, index) ==
    IF index > Len(srcs) THEN { [heap |-> h, result |-> m, err |-> NoErr] }
    ELSE UNION {
        IF data.err # NoErr
        THEN { [heap |-> data.heap, result |-> NilMap, err |-> data.err] }
        ELSE LET next == DeepMerge(data.heap, data.result, m)
             IN  BuildFrom_EarlierWins(next.heap, fsys, env, next.result,
                                       srcs, index + 1) :
        data \in SourceLoad(h, fsys, env, srcs[index]) }

\* mutant: after a failed Load the loop goes on loading the other sources
\* and returns the first error at its end
RECURSIVE BuildFrom_KeepsLoading(_, _, _, _, _, _)
BuildFrom_KeepsLoading(h, fsys, env, m, srcs, index) ==
    IF index > Len(srcs) THEN { [heap |-> h, result |-> m, err |-> NoErr] }
    ELSE UNION {
        IF data.err # NoErr
        THEN { [heap |-> rest.heap, result |-> NilMap, err |-> data.err] :
                rest \in BuildFrom_KeepsLoading(data.heap, fsys, env, m,
                                                srcs, index + 1) }
        ELSE LET next == DeepMerge(data.heap, m, data.result)
             IN  BuildFrom_KeepsLoading(next.heap, fsys, env, next.result,
                                        srcs, index + 1) :
        data \in SourceLoad(h, fsys, env, srcs[index]) }

\* `for _, source := range b.sources`, from source number index on: the set
\* of outcomes
RECURSIVE BuildFrom(_, _, _, _, _, _)
BuildFrom(h, fsys, env, m, srcs, index) ==
    IF index > Len(srcs) THEN { [heap |-> h, result |-> m, err |-> NoErr] }
    ELSE UNION {
        IF data.err # NoErr
        THEN { [heap |-> data.heap, result |-> NilMap, err |-> data.err] }
        ELSE LET next == DeepMerge(data.heap, m, data.result)
             IN  BuildFrom(next.heap, fsys, env, next.result, srcs,
                           index + 1) :
        data \in SourceLoad(h, fsys, env, srcs[index]) }

\* ConfigBuilder.Build: merged := make(map), then the loop over the sources
Build(h, fsys, env, srcs) ==
    BuildFrom(Append(h, <<>>), fsys, env, Len(h) + 1, srcs, 1)

\* three map literals of at most MaxEntries entries together
MergeInit ==
    /\ \E a \in TreeTable[MaxEntries] :
       \E b \in TreeTable[MaxEntries - Size(a)] :
       \E c \in TreeTable[MaxEntries - Size(a) - Size(b)] :
            LET sa == Store(<<>>, a)
                sb == Store(sa.heap, b)
                sc == Store(sb.heap, c)
            IN  /\ heap = sc.heap
                /\ sources = << MemorySource(sa.ref), MemorySource(sb.ref),
                                MemorySource(sc.ref) >>
    /\ merged = NilMap
    /\ environ = <<>>
    /\ observed = 0
    /\ lastCall = NoCall
    /\ Identifier = <<>>
    /\ fs = <<>>
    /\ dest = "zero"
    /\ located = NotLocated
    /\ WatchIdle

\* result := DeepMerge(base, override) on the first two map literals
DoDeepMerge ==
    /\ lastCall = NoCall
    /\ LET r == DeepMerge(heap, sources[1].data, sources[2].data)
       IN  /\ heap' = r.heap
           /\ merged' = r.result
    /\ lastCall' = [op |-> "DeepMerge", before |-> heap]
    /\ UNCHANGED << Identifier, fs, dest, cfgPc, cfgRet, pkgRet, chanCap,
                    outBuf, outClosed, published, done, activeAtClose,
                    skipped, watcher, closeCalls, watchLocation, events,
                    eventsClosed, errorsPending, errorsClosed, loaderPc,
                    loaderIdentifier, bgPc, nWrites, located, sources, environ,
                    observed >>

\* DeepMerge(DeepMerge(a, b), c) and DeepMerge(a, DeepMerge(b, c)) on the
\* three map literals
DoDeepMergeBothWays ==
    /\ lastCall = NoCall
    /\ LET ab == DeepMerge(heap, sources[1].data, sources[2].data)
           left == DeepMerge(ab.heap, ab.result, sources[3].data)
           bc == DeepMerge(left.heap, sources[2].data, sources[3].data)
           right == DeepMerge(bc.heap, sources[1].data, bc.result)
       IN  /\ heap' = right.heap
           /\ merged' = left.result
           /\ lastCall' = [op |-> "DeepMergeBothWays", before |-> heap,
                           left |-> left.result, right |-> right.result]
    /\ UNCHANGED << Identifier, fs, dest, cfgPc, cfgRet, pkgRet, chanCap,
                    outBuf, outClosed, published, done, activeAtClose,
                    skipped, watcher, closeCalls, watchLocation, events,
                    eventsClosed, errorsPending, errorsClosed, loaderPc,
                    loaderIdentifier, bgPc, nWrites, located, sources, environ,
                    observed >>

\* Build() of a builder with the three map literals as sources, of one
\* with the first two, and of one with the first two in the other order
DoBuild ==
    /\ lastCall = NoCall
    /\ \E all \in Build(heap, fs, environ, sources) :
       \E forward \in Build(all.heap, fs, environ,
                             << sources[1], sources[2] >>) :
       \E backward \in Build(forward.heap, fs, environ,
                              << sources[2], sources[1] >>) :
           /\ heap' = backward.heap
           /\ merged' = all.result
           /\ lastCall' = [op |-> "Build", before |-> heap,
                           all |-> all.result, forward |-> forward.result,
                           backward |-> backward.result]
    /\ UNCHANGED << Identifier, fs, dest, cfgPc, cfgRet, pkgRet, chanCap,
                    outBuf, outClosed, published, done, activeAtClose,
                    skipped, watcher, closeCalls, watchLocation, events,
                    eventsClosed, errorsPending, errorsClosed, loaderPc,
                    loaderIdentifier, bgPc, nWrites, located, sources, environ,
                    observed >>

MergeNext == DoDeepMerge \/ DoDeepMergeBothWays \/ DoBuild

MergeSpec == MergeInit /\ [][MergeNext]_vars

(***************************************************************************)
(* The claims about DeepMerge and Build.                                   *)
(***************************************************************************)
\* the merge of two trees as the specification defines it
RECURSIVE RefMerge(_, _)
RefMerge(b, o) ==
    [k \in DOMAIN b \cup DOMAIN o |->
        IF k \notin DOMAIN o THEN b[k]
        ELSE IF k \notin DOMAIN b THEN o[k]
        ELSE IF b[k].kind = "map" /\ o[k].kind = "map"
        THEN MapValue(RefMerge(b[k].m, o[k].m))
        ELSE o[k]]

\* the trees DeepMerge was called with
BaseTree == Tree(lastCall.before, sources[1].data)

OverrideTree == Tree(lastCall.before, sources[2].data)

\* C17: the map DeepMerge returns holds the reference merge of base and
\* override: the union of the keys, base's value for a key of base only,
\* override's value for a key of override only, and for a key of both the
\* recursive merge of two mappings and else override's value.  With an
\* empty override it holds base, and with disjoint key sets the union.
C17_DeepMergeIsReferenceMerge ==
    lastCall.op = "DeepMerge" =>
        LET result == Tree(heap, merged)
        IN  /\ result = RefMerge(BaseTree, OverrideTree)
            /\ DOMAIN result = DOMAIN BaseTree \cup DOMAIN OverrideTree
            /\ OverrideTree = <<>> => result = BaseTree
            /\ DOMAIN BaseTree \cap DOMAIN OverrideTree = {} =>
                    /\ \A k \in DOMAIN BaseTree : result[k] = BaseTree[k]
                    /\ \A k \in DOMAIN OverrideTree :
                            result[k] = OverrideTree[k]

\* C17 witness: a nested mapping was merged key by key, and a key of base
\* alone was kept
C17_Witness ==
    /\ lastCall.op = "DeepMerge"
    /\ BaseTree = [k \in {"k1"} |->
                    MapValue([j \in {"k1"} |-> Scalar("s1")])]
    /\ OverrideTree = [k \in {"k1"} |->
                        MapValue([j \in {"k2"} |-> Scalar("s2")])]
    /\ Tree(heap, merged) =
            [k \in {"k1"} |->
                MapValue([j \in {"k1", "k2"} |->
                    IF j = "k1" THEN Scalar("s1") ELSE Scalar("s2")])]

\* C19: after DeepMerge has returned, every map that existed before the
\* call (base, override and the maps nested in them) holds the entries it
\* held before, and the map returned is a map that did not exist before.
C19_DeepMergeMutatesNothing ==
    lastCall.op = "DeepMerge" =>
        /\ \A r \in 1..Len(lastCall.before) : heap[r] = lastCall.before[r]
        /\ merged \in (1..Len(heap)) \ (1..Len(lastCall.before))
        /\ Tree(heap, sources[1].data) = BaseTree
        /\ Tree(heap, sources[2].data) = OverrideTree

\* C19 witness: a merge that merged a nested mapping of base and override
\* into a second new map, so that the result differs from both
C19_Witness ==
    /\ lastCall.op = "DeepMerge"
    /\ Len(heap) = Len(lastCall.before) + 2
    /\ Tree(heap, merged) # BaseTree
    /\ Tree(heap, merged) # OverrideTree

\* the third tree of a call with three trees
ThirdTree == Tree(lastCall.before, sources[3].data)

\* some key path holds a mapping in a and in c and a non-mapping in b
RECURSIVE Sandwich(_, _, _)
Sandwich(a, b, c) ==
    \E k \in DOMAIN a \cap DOMAIN b \cap DOMAIN c :
        /\ a[k].kind = "map"
        /\ c[k].kind = "map"
        /\ \/ b[k].kind # "map"
           \/ Sandwich(a[k].m, b[k].m, c[k].m)

\* C18: DeepMerge(DeepMerge(a, b), c) equals DeepMerge(a, DeepMerge(b, c))
\* for all trees a, b and c.
C18_DeepMergeAssociative ==
    lastCall.op = "DeepMergeBothWays" =>
        Tree(heap, lastCall.left) = Tree(heap, lastCall.right)

\* C18, amended: DeepMerge(DeepMerge(a, b), c) equals
\* DeepMerge(a, DeepMerge(b, c)) for all trees a, b and c in which no key
\* path holds a mapping in a and in c and a non-mapping in b.
C18_AssociativeUnlessSandwich ==
    (/\ lastCall.op = "DeepMergeBothWays"
     /\ ~Sandwich(BaseTree, OverrideTree, ThirdTree)) =>
        Tree(heap, lastCall.left) = Tree(heap, lastCall.right)

\* C18 witness: a key holds a non-mapping in a and mappings in b and c,
\* and both groupings have merged the two mappings
C18_Witness ==
    /\ lastCall.op = "DeepMergeBothWays"
    /\ BaseTree = [k \in {"k1"} |-> Scalar("s1")]
    /\ OverrideTree = [k \in {"k1"} |->
                        MapValue([j \in {"k1"} |-> Scalar("s1")])]
    /\ ThirdTree = [k \in {"k1"} |-> MapValue(<<>>)]
    /\ Tree(heap, lastCall.left) = OverrideTree
    /\ Tree(heap, lastCall.right) = OverrideTree

\* the key paths of at most n keys
RECURSIVE PathsUpTo(_)
PathsUpTo(n) ==
    IF n = 0 THEN {}
    ELSE PathsUpTo(n - 1)
         \cup { <<k>> : k \in Keys }
         \cup { Append(p, k) : p \in PathsUpTo(n - 1), k \in Keys }

\* the tree holds a value at the key path
RECURSIVE Has(_, _)
Has(t, p) ==
    /\ p[1] \in DOMAIN t
    /\ \/ Len(p) = 1
       \/ t[p[1]].kind = "map" /\ Has(t[p[1]].m, Tail(p))

\* the value at a key path the tree holds
RECURSIVE Get(_, _)
Get(t, p) ==
    IF Len(p) = 1 THEN t[p[1]] ELSE Get(t[p[1]].m, Tail(p))

\* the tree sets a leaf at the key path
IsLeaf(t, p) == Has(t, p) /\ Get(t, p).kind # "map"

\* merging the tree over another replaces what the other holds at the key
\* path: the tree holds a value there, or a leaf on the way to it
Overrides(t, p) ==
    \E n \in 1..Len(p) :
        /\ Has(t, SubSeq(p, 1, n))
        /\ n = Len(p) \/ Get(t, SubSeq(p, 1, n)).kind # "map"

\* the data of source number i of the builder
SourceTree(i) == Tree(lastCall.before, sources[i].data)

\* C20: Build returns the fold of the reference merge over the sources in
\* registration order, from the empty tree; a leaf of a source that no
\* later source replaces is in the result; a leaf that two sources both
\* set has the value of the one added later; and Build([A, B]) differs from
\* Build([B, A]) whenever A and B set a common leaf to different values.
C20_BuildFoldsInOrder ==
    lastCall.op = "Build" =>
        LET all == Tree(heap, lastCall.all)
            forward == Tree(heap, lastCall.forward)
            backward == Tree(heap, lastCall.backward)
            A == SourceTree(1)
            B == SourceTree(2)
            paths == PathsUpTo(MaxEntries)
        IN  /\ all = RefMerge(RefMerge(RefMerge(<<>>, A), B), SourceTree(3))
            /\ forward = RefMerge(RefMerge(<<>>, A), B)
            /\ \A i \in 1..3 : \A p \in paths :
                    (/\ IsLeaf(SourceTree(i), p)
                     /\ \A j \in (i + 1)..3 : ~Overrides(SourceTree(j), p))
                        => (Has(all, p) /\ Get(all, p) = Get(SourceTree(i), p))
            /\ \A p \in paths :
                    (IsLeaf(A, p) /\ IsLeaf(B, p)) =>
                        /\ Get(forward, p) = Get(B, p)
                        /\ Get(backward, p) = Get(A, p)
            /\ (\E p \in paths :
                    /\ IsLeaf(A, p) /\ IsLeaf(B, p)
                    /\ Get(A, p) # Get(B, p))
                    => forward # backward

\* C20 witness: two sources set the same nested leaf to different values;
\* the value of the source added later is in each result
C20_Witness ==
    /\ lastCall.op = "Build"
    /\ SourceTree(1) = [k \in {"k1"} |->
                          MapValue([j \in {"k2"} |-> Scalar("s1")])]
    /\ SourceTree(2) = [k \in {"k1"} |->
                          MapValue([j \in {"k2"} |-> Scalar("s2")])]
    /\ Tree(heap, lastCall.forward) = SourceTree(2)
    /\ Tree(heap, lastCall.backward) = SourceTree(1)

(***************************************************************************)
(* A builder of three layers: defaults, a file, a MemorySource.            *)
(***************************************************************************)
MaxLayerEntries == 2

BuilderIdentifiers ==
    { <<>>, <<"cfg">>, <<"cfg", ".json">>, <<"cfg", ".txt">>,
      <<"/etc", "cfg", ".json">> }

BuilderPaths ==
    { <<"cfg", ".json">>, <<"cfg", ".txt">>, <<"/etc", "cfg", ".json">> }

\* no file, or one file: a document, an undecodable one, an unreadable one
\* or one whose stat fails
BuilderFileSystems ==
    { <<>> } \cup
    { [p \in {q} |-> f] : q \in BuilderPaths,
                          f \in {JsonV1, JsonV2, BadDoc, NoPerm, StatErr} }

\* NewConfigBuilder().AddDefaults(a).AddFile(identifier) or
\* AddOptionalFile(identifier), then AddSource(NewMemorySource(b))
BuilderInit ==
    /\ \E a \in TreeTable[MaxLayerEntries] :
       \E b \in TreeTable[MaxLayerEntries - Size(a)] :
       \E identifier \in BuilderIdentifiers, required \in BOOLEAN :
            LET sa == Store(<<>>, a)
                sb == Store(sa.heap, b)
            IN  /\ heap = sb.heap
                /\ sources = << MemorySource(sa.ref),
                                FileSource(identifier, required),
                                MemorySource(sb.ref) >>
    /\ fs \in BuilderFileSystems
    /\ merged = NilMap
    /\ environ = <<>>
    /\ observed = 0
    /\ lastCall = NoCall
    /\ Identifier = <<>>
    /\ dest = "zero"
    /\ located = NotLocated
    /\ WatchIdle

\* data, err := source.Load() on the FileSource of the builder
DoFileSourceLoad ==
    /\ lastCall = NoCall
    /\ \E r \in FileSourceLoad(heap, fs, sources[2]) :
        /\ heap' = r.heap
        /\ lastCall' = [op |-> "FileSource.Load", before |-> heap,
                        result |-> r.result, err |-> r.err]
    /\ UNCHANGED << Identifier, fs, dest, cfgPc, cfgRet, pkgRet, chanCap,
                    outBuf, outClosed, published, done, activeAtClose,
                    skipped, watcher, closeCalls, watchLocation, events,
                    eventsClosed, errorsPending, errorsClosed, loaderPc,
                    loaderIdentifier, bgPc, nWrites, located, sources,
                    merged, environ, observed >>

\* config, err := builder.Build()
DoBuildLayers ==
    /\ lastCall = NoCall
    /\ \E r \in Build(heap, fs, environ, sources) :
        /\ heap' = r.heap
        /\ merged' = r.result
        /\ lastCall' = [op |-> "BuildLayers", before |-> heap,
                        result |-> r.result, err |-> r.err]
    /\ UNCHANGED << Identifier, fs, dest, cfgPc, cfgRet, pkgRet, chanCap,
                    outBuf, outClosed, published, done, activeAtClose,
                    skipped, watcher, closeCalls, watchLocation, events,
                    eventsClosed, errorsPending, errorsClosed, loaderPc,
                    loaderIdentifier, bgPc, nWrites, located, sources,
                    environ, observed >>

BuilderNext == DoFileSourceLoad \/ DoBuildLayers

BuilderSpec == BuilderInit /\ [][BuilderNext]_vars

(***************************************************************************)
(* The claims about the sources of a builder.                              *)
(***************************************************************************)
\* the errors the package-level Load can return for the builder's file
FileLoadErrs ==
    { l.err : l \in Reload(fs, sources[2].identifier, "zero") }

\* no file of the file system is a readable, decodable document with a
\* registered extension, or the identifier is empty
NothingLoadable ==
    \/ sources[2].identifier = <<>>
    \/ \A p \in DOMAIN fs :
           fs[p] \notin {JsonV1, JsonV2} \/ Ext(p) \notin DOMAIN defaultSerializers

\* C21: when the load of a FileSource fails (nothing loadable: no file, an
\* unreadable one, an unknown extension, undecodable content; or any other
\* error of Load), an optional source returns a new empty map and no error
\* and Build returns the merge of the other sources; a required source
\* returns no map and the error, and so does Build.
C21_OptionalFileFailureIsEmpty ==
    (lastCall.op \in {"FileSource.Load", "BuildLayers"}
        /\ (NothingLoadable \/ NoErr \notin FileLoadErrs)) =>
        IF sources[2].required
        THEN /\ lastCall.err \in FileLoadErrs \ {NoErr}
             /\ lastCall.result = NilMap
        ELSE /\ lastCall.err = NoErr
             /\ lastCall.result \notin 1..Len(lastCall.before)
             /\ Tree(heap, lastCall.result) =
                    IF lastCall.op = "FileSource.Load" THEN <<>>
                    ELSE RefMerge(RefMerge(<<>>, SourceTree(1)), SourceTree(3))

\* C21 witness: Build has succeeded with the data of the two other sources
\* although the optional file "cfg.json" holds an undecodable document
C21_Witness ==
    /\ lastCall.op = "BuildLayers"
    /\ sources[2] = FileSource(<<"cfg", ".json">>, FALSE)
    /\ fs = [p \in { <<"cfg", ".json">> } |-> BadDoc]
    /\ lastCall.err = NoErr
    /\ DOMAIN SourceTree(1) # {}
    /\ DOMAIN SourceTree(3) # {}
    /\ Tree(heap, lastCall.result) = RefMerge(SourceTree(1), SourceTree(3))

(***************************************************************************)
(* A MemorySource and a caller that loads it and writes to what it got.    *)
(***************************************************************************)
MaxLoads == 2
MaxMutations == 1

\* source := NewMemorySource(data)
MemoryInit ==
    /\ \E data \in TreeTable[MaxLayerEntries] :
            LET stored == Store(<<>>, data)
            IN  /\ heap = stored.heap
                /\ sources = << MemorySource(stored.ref) >>
    /\ fs = <<>>
    /\ merged = NilMap
    /\ environ = <<>>
    /\ observed = 0
    /\ lastCall = NoCall
    /\ Identifier = <<>>
    /\ dest = "zero"
    /\ located = NotLocated
    /\ WatchIdle

\* the maps source.Load() has returned, the tree each held when it was
\* returned, and the number of writes the caller has made to them
Loads ==
    IF lastCall.op = "none"
    THEN [op |-> "MemorySource.Load", returned |-> <<>>, trees |-> <<>>,
          writes |-> 0]
    ELSE lastCall

\* data, _ := source.Load()
DoMemorySourceLoad ==
    /\ Len(Loads.returned) < MaxLoads
    /\ LET r == MemorySourceLoad(heap, sources[1].data)
       IN  /\ heap' = r.heap
           /\ merged' = r.result
           /\ lastCall' = [Loads EXCEPT
                  !.returned = Append(@, r.result),
                  !.trees = Append(@, Tree(r.heap, r.result))]
    /\ UNCHANGED << Identifier, fs, dest, cfgPc, cfgRet, pkgRet, chanCap,
                    outBuf, outClosed, published, done, activeAtClose,
                    skipped, watcher, closeCalls, watchLocation, events,
                    eventsClosed, errorsPending, errorsClosed, loaderPc,
                    loaderIdentifier, bgPc, nWrites, located, sources,
                    environ, observed >>

\* data[k] = v on a map Load returned
MutateTop ==
    /\ Loads.writes < MaxMutations
    /\ \E i \in 1..Len(Loads.returned), k \in Keys, v \in Leaves :
        /\ heap' = Put(heap, Loads.returned[i], k, v)
        /\ lastCall' = [Loads EXCEPT !.writes = @ + 1]
    /\ UNCHANGED << Identifier, fs, dest, cfgPc, cfgRet, pkgRet, chanCap,
                    outBuf, outClosed, published, done, activeAtClose,
                    skipped, watcher, closeCalls, watchLocation, events,
                    eventsClosed, errorsPending, errorsClosed, loaderPc,
                    loaderIdentifier, bgPc, nWrites, located, sources,
                    merged, environ, observed >>

\* data[k].(map[string]interface{})[j] = v on a map Load returned
MutateNested ==
    /\ Loads.writes < MaxMutations
    /\ \E i \in 1..Len(Loads.returned), k \in Keys, j \in Keys,
          v \in Leaves :
        LET data == heap[Loads.returned[i]]
        IN  /\ k \in DOMAIN data
            /\ data[k].kind = "map"
            /\ heap' = Put(heap, data[k].ref, j, v)
            /\ lastCall' = [Loads EXCEPT !.writes = @ + 1]
    /\ UNCHANGED << Identifier, fs, dest, cfgPc, cfgRet, pkgRet, chanCap,
                    outBuf, outClosed, published, done, activeAtClose,
                    skipped, watcher, closeCalls, watchLocation, events,
                    eventsClosed, errorsPending, errorsClosed, loaderPc,
                    loaderIdentifier, bgPc, nWrites, located, sources,
                    merged, environ, observed >>

MemoryNext == DoMemorySourceLoad \/ MutateTop \/ MutateNested

MemorySpec == MemoryInit /\ [][MemoryNext]_vars

\* C22: every call of MemorySource.Load returns the tree the first call
\* returned, whatever the caller has written, at the top level or inside a
\* nested mapping, to the maps earlier calls returned.
C22_MemorySourceLoadIsDefensiveCopy ==
    \A i \in 1..Len(Loads.trees) : Loads.trees[i] = Loads.trees[1]

(***************************************************************************)
(* An EnvSource and the environment of the process.                        *)
(***************************************************************************)
MaxEnv == 2

\* names of environment variables: "P__D", "P__d", "P__D__H", "P_D",
\* "P-D", "Q__D", "P__" and "PD"
EnvNames ==
    { << "P", "_", "_", "D" >>, << "P", "_", "_", "d" >>,
      << "P", "_", "_", "D", "_", "_", "H" >>, << "P", "_", "D" >>,
      << "P", "-", "D" >>, << "Q", "_", "_", "D" >>, << "P", "_", "_" >>,
      << "P", "D" >> }

\* values: "x", "y" and "x=y"
EnvValues == { << "x" >>, << "y" >>, << "x", "=", "y" >> }

\* the entries "NAME=value", and an entry that holds no "="
EnvEntries ==
    { n \o << "=" >> \o v : n \in EnvNames, v \in EnvValues }
    \cup { << "P", "_", "_", "D" >> }

\* the environments of at most n entries; no name is set twice
RECURSIVE EnvironsUpTo(_)
EnvironsUpTo(n) ==
    IF n = 0 THEN { <<>> }
    ELSE EnvironsUpTo(n - 1)
         \cup UNION { { Append(e, x) :
                           x \in { y \in EnvEntries :
                               \A i \in 1..Len(e) :
                                   SplitN2(e[i], << "=" >>)[1] #
                                   SplitN2(y, << "=" >>)[1] } } :
                       e \in EnvironsUpTo(n - 1) }

\* NewEnvSource("P"), NewEnvSourceWithSeparator("P", "_") and
\* NewEnvSourceWithSeparator("P", "-")
EnvSources ==
    { EnvSource(<< "P" >>, << "_", "_" >>), EnvSource(<< "P" >>, << "_" >>),
      EnvSource(<< "P" >>, << "-" >>) }

EnvInit ==
    /\ environ \in EnvironsUpTo(MaxEnv)
    /\ \E source \in EnvSources : sources = << source >>
    /\ heap = <<>>
    /\ fs = <<>>
    /\ merged = NilMap
    /\ lastCall = NoCall
    /\ Identifier = <<>>
    /\ dest = "zero"
    /\ located = NotLocated
    /\ observed = 0
    /\ WatchIdle

\* data, err := source.Load()
DoEnvSourceLoad ==
    /\ lastCall = NoCall
    /\ LET r == EnvSourceLoad(heap, environ, sources[1])
       IN  /\ heap' = r.heap
           /\ merged' = r.result
           /\ lastCall' = [op |-> "EnvSource.Load", before |-> heap,
                           result |-> r.result, err |-> r.err]
    /\ UNCHANGED << Identifier, fs, dest, cfgPc, cfgRet, pkgRet, chanCap,
                    outBuf, outClosed, published, done, activeAtClose,
                    skipped, watcher, closeCalls, watchLocation, events,
                    eventsClosed, errorsPending, errorsClosed, loaderPc,
                    loaderIdentifier, bgPc, nWrites, located, sources,
                    environ, observed >>

EnvNext == DoEnvSourceLoad

EnvSpec == EnvInit /\ [][EnvNext]_vars

(***************************************************************************)
(* The claims about EnvSource.                                             *)
(***************************************************************************)
EnvPrefix == sources[1].prefix \o sources[1].separator

EntryName(i) == SplitN2(environ[i], << "=" >>)[1]

EntryValue(i) == SplitN2(environ[i], << "=" >>)[2]

\* entry number i has a value and its name starts with prefix + separator
Kept(i) ==
    /\ Len(SplitN2(environ[i], << "=" >>)) = 2
    /\ HasPrefix(EntryName(i), EnvPrefix)

\* the name without the prefix, lower-cased and split on the separator
KeyPath(i) ==
    Split(ToLower(TrimPrefix(EntryName(i), EnvPrefix)), sources[1].separator)

\* one key path begins with the other
Comparable(p, q) ==
    \/ Len(p) <= Len(q) /\ SubSeq(q, 1, Len(p)) = p
    \/ Len(q) <= Len(p) /\ SubSeq(p, 1, Len(q)) = q

\* the key paths at which the tree holds a leaf
RECURSIVE LeafPaths(_)
LeafPaths(t) ==
    UNION { IF t[k].kind = "map"
            THEN { << k >> \o p : p \in LeafPaths(t[k].m) }
            ELSE { << k >> } : k \in DOMAIN t }

\* every leaf of the tree is the value of a kept entry at its key path
LeavesFromKept(t) ==
    \A p \in LeafPaths(t) :
        \E i \in 1..Len(environ) :
            Kept(i) /\ KeyPath(i) = p /\ Get(t, p) = Scalar(EntryValue(i))

\* C23: the tree EnvSource.Load returns holds, for every entry whose name
\* starts with prefix + separator, the value as a string leaf at the key
\* path of the entry, and nothing that does not come from such an entry.
C23_EnvEntriesAtKeyPaths ==
    lastCall.op = "EnvSource.Load" =>
        LET t == Tree(heap, lastCall.result)
        IN  /\ lastCall.err = NoErr
            /\ \A i \in 1..Len(environ) :
                    (Kept(i) /\ KeyPath(i) # <<>>) =>
                        /\ Has(t, KeyPath(i))
                        /\ Get(t, KeyPath(i)) = Scalar(EntryValue(i))
            /\ LeavesFromKept(t)

\* C23, amended: the same for every such entry that no later such entry
\* replaces: none whose key path is the same, begins with it or is a
\* beginning of it.
C23_EnvEntriesUnlessReplaced ==
    lastCall.op = "EnvSource.Load" =>
        LET t == Tree(heap, lastCall.result)
        IN  /\ lastCall.err = NoErr
            /\ \A i \in 1..Len(environ) :
                    (/\ Kept(i) /\ KeyPath(i) # <<>>
                     /\ \A j \in (i + 1)..Len(environ) :
                            Kept(j) => ~Comparable(KeyPath(i), KeyPath(j)))
                        => /\ Has(t, KeyPath(i))
                           /\ Get(t, KeyPath(i)) = Scalar(EntryValue(i))
            /\ LeavesFromKept(t)

\* C23 witness: "P__D__H=x" and "Q__D=y" with prefix "P" and separator
\* "__" have given {d: {h: "x"}}
C23_Witness ==
    /\ lastCall.op = "EnvSource.Load"
    /\ sources[1] = EnvSource(<< "P" >>, << "_", "_" >>)
    /\ environ = << << "P", "_", "_", "D", "_", "_", "H", "=", "x" >>,
                    << "Q", "_", "_", "D", "=", "y" >> >>
    /\ Tree(heap, lastCall.result) =
          [k \in { << "d" >> } |->
              MapValue([j \in { << "h" >> } |-> Scalar(<< "x" >>)])]

(***************************************************************************)
(* pathing.go: init, GetStandardPaths and callers that write to the slices *)
(* it returned.  The heap holds the backing arrays of the slices.          *)
(***************************************************************************)
WorkingDirectories == { <<"/wd">>, <<"/wd", "bin">> }

\* the file systems Locate searches for "cfg"
PathsFileSystems ==
    { [p \in { <<"/wd", "cfg", ".json">> } |-> JsonV1],
      [p \in { <<"cfg">>, <<"/etc", "cfg">> } |-> JsonV1] }

\* the process after init(): XDG_CONFIG_DIRS is unset or names the working
\* directory once more
PathsInit ==
    /\ \E wd \in WorkingDirectories :
       \E xdgPaths \in { <<>>, << wd >> } :
       \E paths \in pathingInit(wd, xdgPaths) :
            /\ heap = << paths >>
            /\ lastCall = [op |-> "GetStandardPaths",
                           candidates |-> candidatePaths(wd, xdgPaths),
                           initial |-> paths, returned |-> <<>>,
                           contents |-> <<>>, writesBefore |-> <<>>,
                           writes |-> 0, searched |-> <<>>]
    /\ Identifier = <<"cfg">>
    /\ fs \in PathsFileSystems
    /\ sources = <<>>
    /\ merged = NilMap
    /\ environ = <<>>
    /\ observed = 0
    /\ dest = "zero"
    /\ located = NotLocated
    /\ WatchIdle

\* paths := GetStandardPaths()
DoGetStandardPaths ==
    /\ Len(lastCall.returned) < MaxLoads
    /\ LET r == GetStandardPathsFrom(heap, standardPathsRef)
       IN  /\ heap' = r.heap
           /\ lastCall' = [lastCall EXCEPT
                  !.returned = Append(@, r.result),
                  !.contents = Append(@, r.heap[r.result]),
                  !.writesBefore = Append(@, lastCall.writes)]
    /\ UNCHANGED << Identifier, fs, dest, cfgPc, cfgRet, pkgRet, chanCap,
                    outBuf, outClosed, published, done, activeAtClose,
                    skipped, watcher, closeCalls, watchLocation, events,
                    eventsClosed, errorsPending, errorsClosed, loaderPc,
                    loaderIdentifier, bgPc, nWrites, located, sources,
                    merged, environ, observed >>

\* paths[index] = "modified" on a slice GetStandardPaths returned, at its
\* first or its last element
WriteReturned ==
    /\ lastCall.writes < MaxMutations
    /\ \E i \in 1..Len(lastCall.returned) :
       \E index \in { 1, Len(heap[lastCall.returned[i]]) } :
            heap' = [heap EXCEPT ![lastCall.returned[i]][index] =
                                    <<"modified">>]
    /\ lastCall' = [lastCall EXCEPT !.writes = @ + 1]
    /\ UNCHANGED << Identifier, fs, dest, cfgPc, cfgRet, pkgRet, chanCap,
                    outBuf, outClosed, published, done, activeAtClose,
                    skipped, watcher, closeCalls, watchLocation, events,
                    eventsClosed, errorsPending, errorsClosed, loaderPc,
                    loaderIdentifier, bgPc, nWrites, located, sources,
                    merged, environ, observed >>

\* FileLoader{identifier: Identifier}.Locate(), which begins its search
\* with paths := GetStandardPaths()
DoLocateStandard ==
    /\ ~located.called
    /\ LET paths == GetStandardPathsFrom(heap, standardPathsRef)
       IN  /\ heap' = paths.heap
           /\ lastCall' = [lastCall EXCEPT
                              !.searched = paths.heap[paths.result]]
           /\ \E r \in LocateWith(fs, paths.heap[paths.result], Identifier) :
                located' = [called |-> TRUE, path |-> r.path, err |-> r.err]
    /\ UNCHANGED << Identifier, fs, dest, cfgPc, cfgRet, pkgRet, chanCap,
                    outBuf, outClosed, published, done, activeAtClose,
                    skipped, watcher, closeCalls, watchLocation, events,
                    eventsClosed, errorsPending, errorsClosed, loaderPc,
                    loaderIdentifier, bgPc, nWrites, sources, merged,
                    environ, observed >>

PathsNext == DoGetStandardPaths \/ WriteReturned \/ DoLocateStandard

PathsSpec == PathsInit /\ [][PathsNext]_vars

(***************************************************************************)
(* The claims about the standard paths.                                    *)
(***************************************************************************)
\* C24: whatever has been written to the slices GetStandardPaths returned,
\* the package slice still holds the list init() left, every call has
\* returned a new slice that held that list, and Locate has searched the
\* directories of that list.
C24_GetStandardPathsReturnsCopy ==
    /\ heap[standardPathsRef] = lastCall.initial
    /\ \A i \in 1..Len(lastCall.returned) :
            /\ lastCall.contents[i] = lastCall.initial
            /\ lastCall.returned[i] # standardPathsRef
            /\ \A j \in 1..Len(lastCall.returned) :
                    i # j => lastCall.returned[i] # lastCall.returned[j]
    /\ located.called =>
            /\ lastCall.searched = lastCall.initial
            /\ [path |-> located.path, err |-> located.err]
                    \in LocateWith(fs, lastCall.initial, Identifier)

\* C24 witness: a returned slice was written to, and a call made after the
\* write and the search of Locate still had the list of init()
C24_Witness ==
    /\ Len(lastCall.returned) = 2
    /\ lastCall.writesBefore[2] = 1
    /\ heap[lastCall.returned[1]] # lastCall.initial
    /\ heap[lastCall.returned[2]] = lastCall.initial
    /\ located.called
    /\ located.err = NoErr

\* candidate number i of init(), the root directory being the empty path
Candidate(i) ==
    IF lastCall.candidates[i] = <<"/">> THEN <<>> ELSE lastCall.candidates[i]

\* the number of the first candidate that is the directory or whose etc
\* subdirectory is the directory
Discovered(directory) ==
    CHOOSE i \in 1..Len(lastCall.candidates) :
        /\ directory \in {Candidate(i), JoinEtc(Candidate(i))}
        /\ \A j \in 1..(i - 1) :
                directory \notin {Candidate(j), JoinEtc(Candidate(j))}

\* C25: the list init() leaves in standardPaths holds every candidate
\* directory and its etc subdirectory, holds no directory twice, and holds
\* them in the order of discovery: current directory, working directory,
\* XDG_CONFIG_DIRS entries, system directories.
C25_StandardPathsInDiscoveryOrder ==
    LET list == heap[standardPathsRef]
    IN  /\ \A i \in 1..Len(lastCall.candidates) :
                /\ JoinEtc(Candidate(i)) \in { list[n] : n \in 1..Len(list) }
                /\ Candidate(i) # <<>> =>
                        Candidate(i) \in { list[n] : n \in 1..Len(list) }
        /\ \A m, n \in 1..Len(list) : m # n => list[m] # list[n]
        /\ \A m, n \in 1..Len(list) :
                m < n => Discovered(list[m]) <= Discovered(list[n])

(***************************************************************************)
(* accessor.go: ConfigMap.  A key is a string, a sequence of characters;   *)
(* the keys of the maps of a ConfigMap are strings of one character here.  *)
(***************************************************************************)
MaxKeyLen == 4

keySeparator == << "." >>

\* the nil interface value
Nil == [kind |-> "nil"]

\* the characters a key string is made of
KeyChars == Keys \cup { "." }

\* the key strings of at most n characters
RECURSIVE KeyStringsUpTo(_)
KeyStringsUpTo(n) ==
    IF n = 0 THEN { <<>> }
    ELSE KeyStringsUpTo(n - 1)
         \cup { Append(s, c) : s \in { x \in KeyStringsUpTo(n - 1) :
                                            Len(x) = n - 1 },
                               c \in KeyChars }

KeyStrings == KeyStringsUpTo(MaxKeyLen)

\* a map literal whose keys are written as strings
RECURSIVE StringKeyed(_)
StringKeyed(t) ==
    [s \in { << k >> : k \in DOMAIN t } |->
        IF t[s[1]].kind = "map"
        THEN MapValue(StringKeyed(t[s[1]].m))
        ELSE t[s[1]]]

\* mutant: the walk stops at a value that is not a map and returns it
RECURSIVE ConfigMapGetFrom_ThroughLeaf(_, _, _, _)
ConfigMapGetFrom_ThroughLeaf(h, current, parts, i) ==
    IF i > Len(parts) THEN [value |-> current, ok |-> TRUE]
    ELSE IF current.kind = "map"
    THEN IF parts[i] \in DOMAIN h[current.ref]
         THEN ConfigMapGetFrom_ThroughLeaf(h, h[current.ref][parts[i]],
                                           parts, i + 1)
         ELSE [value |-> Nil, ok |-> FALSE]
    ELSE [value |-> current, ok |-> TRUE]

\* `for _, part := range parts` of Get, from part number i on
RECURSIVE ConfigMapGetFrom(_, _, _, _)
ConfigMapGetFrom(h, current, parts, i) ==
    IF i > Len(parts) THEN [value |-> current, ok |-> TRUE]
    ELSE IF current.kind = "map"
    THEN IF parts[i] \in DOMAIN h[current.ref]
         THEN ConfigMapGetFrom(h, h[current.ref][parts[i]], parts, i + 1)
         ELSE [value |-> Nil, ok |-> FALSE]
    ELSE [value |-> Nil, ok |-> FALSE]

\* ConfigMap.Get on the ConfigMap whose data is the map at reference data
ConfigMapGet(h, data, key) ==
    IF key = <<>> THEN [value |-> MapRef(data), ok |-> TRUE]
    ELSE ConfigMapGetFrom(h, MapRef(data), Split(key, keySeparator), 1)

\* ConfigMap.Has
ConfigMapHas(h, data, key) == ConfigMapGet(h, data, key).ok

\* mutant: a created intermediate map is not stored in its parent
RECURSIVE ConfigMapSetFrom_NotLinked(_, _, _, _, _)
ConfigMapSetFrom_NotLinked(h, current, parts, i, value) ==
    IF i = Len(parts)
    THEN [heap |-> Put(h, current, parts[i], value), err |-> NoErr]
    ELSE IF parts[i] \notin DOMAIN h[current]
    THEN ConfigMapSetFrom_NotLinked(Append(h, <<>>), Len(h) + 1, parts,
                                    i + 1, value)
    ELSE IF h[current][parts[i]].kind = "map"
    THEN ConfigMapSetFrom_NotLinked(h, h[current][parts[i]].ref, parts,
                                    i + 1, value)
    ELSE [heap |-> h, err |-> "NotAMap"]

\* mutant: a value that is not a map is replaced by a fresh map before the
\* error is returned
RECURSIVE ConfigMapSetFrom_ReplacesThenFails(_, _, _, _, _)
ConfigMapSetFrom_ReplacesThenFails(h, current, parts, i, value) ==
    IF i = Len(parts)
    THEN [heap |-> Put(h, current, parts[i], value), err |-> NoErr]
    ELSE IF parts[i] \notin DOMAIN h[current]
    THEN ConfigMapSetFrom_ReplacesThenFails(
             Put(Append(h, <<>>), current, parts[i], MapRef(Len(h) + 1)),
             Len(h) + 1, parts, i + 1, value)
    ELSE IF h[current][parts[i]].kind = "map"
    THEN ConfigMapSetFrom_ReplacesThenFails(h, h[current][parts[i]].ref,
                                            parts, i + 1, value)
    ELSE [heap |-> Put(Append(h, <<>>), current, parts[i],
                       MapRef(Len(h) + 1)),
          err |-> "NotAMap"]

\* the navigation loop of Set from part number i on and the final
\* assignment, current being the map reached so far
RECURSIVE ConfigMapSetFrom(_, _, _, _, _)
ConfigMapSetFrom(h, current, parts, i, value) ==
    IF i = Len(parts)
    THEN [heap |-> Put(h, current, parts[i], value), err |-> NoErr]
    ELSE IF parts[i] \notin DOMAIN h[current]
    THEN ConfigMapSetFrom(Put(Append(h, <<>>), current, parts[i],
                              MapRef(Len(h) + 1)),
                          Len(h) + 1, parts, i + 1, value)
    ELSE IF h[current][parts[i]].kind = "map"
    THEN ConfigMapSetFrom(h, h[current][parts[i]].ref, parts, i + 1, value)
    ELSE [heap |-> h, err |-> "NotAMap"]

\* ConfigMap.Set
ConfigMapSet(h, data, key, value) ==
    IF key = <<>> THEN [heap |-> h, err |-> "EmptyKey"]
    ELSE ConfigMapSetFrom(h, data, Split(key, keySeparator), 1, value)

\* the values given to Set: a scalar, nil, and a map literal
SetValues ==
    { Scalar("s2"), Nil, MapValue([s \in { << "k2" >> } |-> Scalar("s1")]) }

\* NewConfigMap(data) on a map literal: ConfigMap.data is the map `merged`
AccessorInit ==
    /\ \E data \in TreeTable[MaxLayerEntries] :
            LET stored == Store(<<>>, StringKeyed(data))
            IN  /\ heap = stored.heap
                /\ merged = stored.ref
    /\ sources = <<>>
    /\ fs = <<>>
    /\ environ = <<>>
    /\ observed = 0
    /\ lastCall = NoCall
    /\ Identifier = <<>>
    /\ dest = "zero"
    /\ located = NotLocated
    /\ WatchIdle

\* value, ok := cm.Get(key); has := cm.Has(key)
DoGet ==
    /\ lastCall = NoCall
    /\ \E key \in KeyStrings :
        LET r == ConfigMapGet(heap, merged, key)
        IN  lastCall' = [op |-> "Get", key |-> key, value |-> r.value,
                         ok |-> r.ok, has |-> ConfigMapHas(heap, merged, key)]
    /\ UNCHANGED << Identifier, fs, dest, cfgPc, cfgRet, pkgRet, chanCap,
                    outBuf, outClosed, published, done, activeAtClose,
                    skipped, watcher, closeCalls, watchLocation, events,
                    eventsClosed, errorsPending, errorsClosed, loaderPc,
                    loaderIdentifier, bgPc, nWrites, located, sources,
                    merged, environ, heap, observed >>

\* err := cm.Set(key, value); got, ok := cm.Get(key)
DoSet ==
    /\ lastCall = NoCall
    /\ \E key \in KeyStrings, value \in SetValues :
        LET given == IF value.kind = "map"
                     THEN LET stored == Store(heap, value.m)
                          IN  [heap |-> stored.heap,
                               value |-> MapRef(stored.ref)]
                     ELSE [heap |-> heap, value |-> value]
            r == ConfigMapSet(given.heap, merged, key, given.value)
            got == ConfigMapGet(r.heap, merged, key)
        IN  /\ heap' = r.heap
            /\ lastCall' = [op |-> "Set", key |-> key,
                            value |-> given.value, err |-> r.err,
                            before |-> Tree(heap, merged),
                            got |-> got.value, ok |-> got.ok]
    /\ UNCHANGED << Identifier, fs, dest, cfgPc, cfgRet, pkgRet, chanCap,
                    outBuf, outClosed, published, done, activeAtClose,
                    skipped, watcher, closeCalls, watchLocation, events,
                    eventsClosed, errorsPending, errorsClosed, loaderPc,
                    loaderIdentifier, bgPc, nWrites, located, sources,
                    merged, environ, observed >>

AccessorNext == DoGet \/ DoSet

AccessorSpec == AccessorInit /\ [][AccessorNext]_vars

\* a value of the heap as a value of a tree
ValueTree(h, v) ==
    IF v.kind = "map" THEN MapValue(Tree(h, v.ref)) ELSE v

\* C26: Get(key) returns (value, true) exactly when every segment of the
\* dot-separated key exists and every intermediate value is a mapping, the
\* value being the one at the end of the path; it returns (nil, false)
\* otherwise; it returns the whole tree for the empty key; Has(key) is the
\* boolean Get returns.
C26_GetWalksPath ==
    lastCall.op = "Get" =>
        LET t == Tree(heap, merged)
            p == Split(lastCall.key, keySeparator)
        IN  /\ lastCall.key = <<>> =>
                    /\ lastCall.ok
                    /\ ValueTree(heap, lastCall.value) = MapValue(t)
            /\ lastCall.key # <<>> =>
                    /\ lastCall.ok <=> Has(t, p)
                    /\ lastCall.ok =>
                            ValueTree(heap, lastCall.value) = Get(t, p)
                    /\ ~lastCall.ok => lastCall.value = Nil
            /\ lastCall.has = lastCall.ok

\* Get found a leaf below a nested mapping
C26_Witness ==
    /\ lastCall.op = "Get"
    /\ lastCall.key = << "k1", ".", "k2" >>
    /\ lastCall.ok
    /\ lastCall.value = Scalar("s1")

\* the key paths at which the tree holds a value, leaf or mapping
RECURSIVE KeyPaths(_)
KeyPaths(t) ==
    UNION { { << k >> } \cup
            (IF t[k].kind = "map"
             THEN { << k >> \o p : p \in KeyPaths(t[k].m) }
             ELSE {}) : k \in DOMAIN t }

\* C27: when Set(key, value) returns nil, the Get(key) that follows returns
\* (value, true), and every key path that neither begins the path of key
\* nor begins with it holds after the Set what it held before.
C27_SetGetRoundTrip ==
    lastCall.op = "Set" /\ lastCall.err = NoErr =>
        LET t == Tree(heap, merged)
            p == Split(lastCall.key, keySeparator)
        IN  /\ lastCall.ok
            /\ lastCall.got = lastCall.value
            /\ \A q \in KeyPaths(t) \cup KeyPaths(lastCall.before) :
                    ~Comparable(p, q) =>
                        /\ q \in KeyPaths(t) \cap KeyPaths(lastCall.before)
                        /\ Get(t, q) = Get(lastCall.before, q)

\* Set created the intermediate mapping k1 beside the existing key k2
C27_Witness ==
    /\ lastCall.op = "Set"
    /\ lastCall.err = NoErr
    /\ lastCall.key = << "k1", ".", "k2" >>
    /\ << "k1" >> \notin DOMAIN lastCall.before
    /\ << "k2" >> \in DOMAIN lastCall.before
    /\ Tree(heap, merged)[<< "k1" >>] =
            MapValue([s \in { << "k2" >> } |-> Scalar("s2")])

(***************************************************************************)
(* loaders.go: FileLoader.WatchWithContext called on its own, as           *)
(* loaders_test.go calls it.  The channel is the caller's: chanCap is its  *)
(* capacity, outBuf the values buffered in it, published the values whose  *)
(* send completed.  lastCall keeps what the call returned and, in order,   *)
(* what the loop received from Events() and Errors().                      *)
(***************************************************************************)
MaxReported == 2

\* the operations of the events the watcher reports
EventOps ==
    { {"Write"}, {"Create"}, {"Remove"}, {"Rename"}, {"Chmod"},
      {"Write", "Chmod"} }

\* a value received from watcher.Errors(), as an entry of the history
ErrorValue == {"Error"}

\* the number of values the loop has received from watcher.Errors()
ErrorsReceived ==
    Cardinality({ i \in 1..Len(lastCall.received) :
                    lastCall.received[i] = ErrorValue })

\* the file systems the call is made on: without and with the file
LoaderFileSystems ==
    { <<>>, [p \in { <<"cfg", ".json">> } |-> JsonV1] }

LoaderInit ==
    /\ loaderIdentifier \in WatchIdentifiers
    /\ fs \in LoaderFileSystems
    /\ done \in {"nil", "open"}
    /\ chanCap \in {0, 1}
    /\ Identifier = <<>>
    /\ dest = "zero"
    /\ pkgRet = "none"
    /\ cfgPc = "none"
    /\ cfgRet = "none"
    /\ outBuf = <<>>
    /\ outClosed = FALSE
    /\ published = <<>>
    /\ activeAtClose = FALSE
    /\ skipped = 0
    /\ watcher = "none"
    /\ closeCalls = 0
    /\ watchLocation = <<>>
    /\ events = <<>>
    /\ eventsClosed = FALSE
    /\ errorsPending = 0
    /\ errorsClosed = FALSE
    /\ loaderPc = "none"
    /\ bgPc = "none"
    /\ nWrites = 0
    /\ located = NotLocated
    /\ lastCall = NoCall
    /\ heap = <<>>
    /\ sources = <<>>
    /\ merged = NilMap
    /\ environ = <<>>
    /\ observed = 0

\* err := loader.WatchWithContext(channel, done), up to its return
DoWatchWithContext ==
    /\ lastCall = NoCall
    /\ \E w \in WatchWithContext(fs, loaderIdentifier) :
        /\ watcher' = w.watcher
        /\ closeCalls' = w.closeCalls
        /\ watchLocation' = w.location
        /\ loaderPc' = IF w.err = NoErr THEN "select" ELSE "none"
        /\ lastCall' = [op |-> "WatchWithContext", err |-> w.err,
                        received |-> <<>>]
    /\ UNCHANGED << Identifier, fs, dest, cfgPc, cfgRet, pkgRet, chanCap,
                    outBuf, outClosed, published, done, activeAtClose,
                    skipped, events, eventsClosed, errorsPending,
                    errorsClosed, loaderIdentifier, bgPc, nWrites, located,
                    heap, sources, merged, environ, observed >>

\* the watcher reports an event on the registered path
ReportEvent(op) ==
    /\ watcher = "open"
    /\ ~eventsClosed
    /\ Len(events) < MaxEvents
    /\ nWrites < MaxWrites
    /\ events' = Append(events, op)
    /\ nWrites' = nWrites + 1
    /\ observed' = IF Notifies(op) THEN observed + 1 ELSE observed
    /\ UNCHANGED << Identifier, fs, dest, cfgPc, cfgRet, pkgRet, chanCap,
                    outBuf, outClosed, published, done, activeAtClose,
                    skipped, watcher, closeCalls, watchLocation,
                    eventsClosed, errorsPending, errorsClosed, loaderPc,
                    loaderIdentifier, bgPc, located, lastCall, heap,
                    sources, merged, environ >>

\* the watcher reports an error
ReportError ==
    /\ watcher = "open"
    /\ ~errorsClosed
    /\ errorsPending < MaxErrors
    /\ ErrorsReceived + errorsPending < MaxReported
    /\ errorsPending' = errorsPending + 1
    /\ UNCHANGED << Identifier, fs, dest, cfgPc, cfgRet, pkgRet, chanCap,
                    outBuf, outClosed, published, done, activeAtClose,
                    skipped, watcher, closeCalls, watchLocation, events,
                    eventsClosed, errorsClosed, loaderPc, loaderIdentifier,
                    bgPc, nWrites, located, lastCall, heap, sources, merged,
                    environ, observed >>

\* case event, ok := <-watcher.Events(), ok
LoopEvent ==
    /\ loaderPc = "select"
    /\ events # <<>>
    /\ events' = Tail(events)
    /\ loaderPc' = AfterEvent(Head(events))
    /\ lastCall' = [lastCall EXCEPT !.received = Append(@, Head(events))]
    /\ UNCHANGED << Identifier, fs, dest, cfgPc, cfgRet, pkgRet, chanCap,
                    outBuf, outClosed, published, done, activeAtClose,
                    skipped, watcher, closeCalls, watchLocation,
                    eventsClosed, errorsPending, errorsClosed,
                    loaderIdentifier, bgPc, nWrites, located, heap, sources,
                    merged, environ, observed >>

\* channel <- true: on an unbuffered channel the send completes when the
\* caller receives, which it may at any time
LoopSend ==
    /\ loaderPc = "send"
    /\ CanSend
    /\ published' = Append(published, TRUE)
    /\ outBuf' = IF chanCap = 0 THEN outBuf ELSE Append(outBuf, TRUE)
    /\ loaderPc' = "select"
    /\ UNCHANGED << Identifier, fs, dest, cfgPc, cfgRet, pkgRet, chanCap,
                    outClosed, done, activeAtClose, skipped, watcher,
                    closeCalls, watchLocation, events, eventsClosed,
                    errorsPending, errorsClosed, loaderIdentifier, bgPc,
                    nWrites, located, lastCall, heap, sources, merged,
                    environ, observed >>

\* case _, ok := <-watcher.Errors(), ok: continue
LoopError ==
    /\ loaderPc = "select"
    /\ errorsPending > 0
    /\ errorsPending' = errorsPending - 1
    /\ AfterError
    /\ lastCall' = [lastCall EXCEPT !.received = Append(@, ErrorValue)]
    /\ UNCHANGED << Identifier, fs, dest, cfgPc, cfgRet, pkgRet, chanCap,
                    outBuf, outClosed, published, done, activeAtClose,
                    skipped, watchLocation, events, eventsClosed,
                    errorsClosed, loaderIdentifier, bgPc, nWrites, located,
                    heap, sources, merged, environ, observed >>

\* the direct call's loop and its surroundings
LoaderNext ==
    \/ DoWatchWithContext
    \/ \E op \in EventOps : ReportEvent(op)
    \/ ReportError
    \/ CloseEvents
    \/ CloseErrors
    \/ CloseDone
    \/ ConsumerRecv
    \/ LoopEvent
    \/ LoopSend
    \/ LoopError
    \/ LoaderEventsClosed
    \/ LoaderErrorsClosed
    \/ LoaderDone

LoaderSpec == LoaderInit /\ [][LoaderNext]_vars

\* the events received so far whose operation includes write or create
Notifying ==
    { i \in 1..Len(lastCall.received) : Notifies(lastCall.received[i]) }

\* C28: the notifications sent on the channel are one for each received
\* event whose operation includes write or create, the one for the event
\* just received being still to send, and none for any other event.
C28_OneNotificationPerWriteOrCreate ==
    lastCall.op = "WatchWithContext" =>
        /\ Len(published) =
                Cardinality(Notifying) - (IF loaderPc = "send" THEN 1 ELSE 0)
        /\ \A i \in 1..Len(published) : published[i] = TRUE
        /\ loaderPc = "send" => Len(lastCall.received) \in Notifying

\* a write with a chmod was notified once, a rename and a remove were not
C28_Witness ==
    /\ lastCall.op = "WatchWithContext"
    /\ lastCall.received = << {"Rename"}, {"Write", "Chmod"} >>
    /\ published = << TRUE >>
    /\ loaderPc = "select"

\* the loop has just received a value from watcher.Errors()
ReceivesError ==
    /\ lastCall.op = "WatchWithContext"
    /\ Len(lastCall'.received) = Len(lastCall.received) + 1
    /\ lastCall'.received[Len(lastCall'.received)] = ErrorValue

\* the loop has just received an event of a write or a create after a
\* value from watcher.Errors()
ReceivesWriteAfterError ==
    /\ lastCall.op = "WatchWithContext"
    /\ ErrorsReceived > 0
    /\ Len(lastCall'.received) = Len(lastCall.received) + 1
    /\ Notifies(lastCall'.received[Len(lastCall'.received)])

\* C29: receiving a value from watcher.Errors() neither ends the loop nor
\* closes the handle, and while the loop runs after such values, with done
\* nil or not, it can receive an event, and an event of a write or a create
\* it receives then is notified.
C29_ErrorsNeverStopTheLoop ==
    /\ [][ReceivesError =>
            /\ loaderPc' = "select"
            /\ watcher' = "open"
            /\ closeCalls' = 0]_vars
    /\ [][ReceivesWriteAfterError => loaderPc' = "send"]_vars
    /\ [](lastCall.op = "WatchWithContext" /\ ErrorsReceived > 0
            /\ loaderPc = "select" /\ events # <<>> => ENABLED LoopEvent)

\* two errors, then a write, whose notification was sent; done is nil
C29_Witness ==
    /\ lastCall.op = "WatchWithContext"
    /\ lastCall.received = << ErrorValue, ErrorValue, {"Write"} >>
    /\ published = << TRUE >>
    /\ done = "nil"

\* C30: when WatchWithContext returns an error, no loop has been started,
\* nothing is ever sent on the channel, and the handle, if one was made, has
\* been closed, once.
C30_SetupFailsSynchronously ==
    lastCall.op = "WatchWithContext" /\ lastCall.err # NoErr =>
        /\ loaderPc = "none"
        /\ published = <<>>
        /\ outBuf = <<>>
        /\ watcher \in {"none", "closed"}
        /\ watcher = "closed" <=> lastCall.err # "WatcherCreate"
        /\ closeCalls = IF watcher = "closed" THEN 1 ELSE 0

\* watcher.Add failed on a file that Locate found
C30_Witness ==
    /\ lastCall.op = "WatchWithContext"
    /\ lastCall.err = "WatcherAdd"
    /\ watcher = "closed"
    /\ closeCalls = 1

(***************************************************************************)
(* Further claims about the Configuration watch.                           *)
(***************************************************************************)
\* C31: the goroutine reads a notification only at its select, when the
\* cycle before has ended with its publish or its continue, and the values
\* published are at most one more than the write/create events the watcher
\* has reported.
C31_CyclesNeverOverlap ==
    /\ [][bgPc' = "cycle" /\ bgPc # "cycle" =>
            bgPc = "select" /\ loaderPc = "send" /\ loaderPc' = "select"]_vars
    /\ [][Len(published') > Len(published) /\ bgPc # "none" =>
            bgPc = "send" /\ bgPc' = "select"]_vars
    /\ [](Len(published) <= 1 + observed)

\* two write/create events, each followed by its publish
C31_Witness ==
    /\ observed = 2
    /\ Len(published) = 3
    /\ bgPc = "select"

(***************************************************************************)
(* Further claims about FileLoader.WatchWithContext called on its own.     *)
(***************************************************************************)
\* C32: once done has been closed, no send on the notify channel completes
\* any more, whatever events the watcher reports afterwards.
C32_NoNotificationAfterDone ==
    [][done = "closed" /\ lastCall.op = "WatchWithContext" =>
            published' = published]_vars

(***************************************************************************)
(* pathing.go: ConfigBuilder.Build on a builder with two file sources.     *)
(***************************************************************************)
FailingIdentifiers == { <<"cfg", ".json">>, <<"/etc", "cfg", ".json">> }

\* each of the two files is absent, a document, an undecodable document or
\* unreadable
FailingFileSystems ==
    UNION { [S -> {JsonV1, BadDoc, NoPerm}] : S \in SUBSET FailingIdentifiers }

\* NewConfigBuilder().AddFile(first) or AddOptionalFile(first), then
\* AddDefaults(a).AddFile(second).AddDefaults(a)
FailingInit ==
    /\ \E a \in TreeTable[MaxLayerEntries] :
       \E first \in FailingIdentifiers, second \in FailingIdentifiers,
          required \in BOOLEAN :
            LET sa == Store(<<>>, a)
            IN  /\ heap = sa.heap
                /\ sources = << FileSource(first, required),
                                MemorySource(sa.ref),
                                FileSource(second, TRUE),
                                MemorySource(sa.ref) >>
    /\ fs \in FailingFileSystems
    /\ merged = NilMap
    /\ environ = <<>>
    /\ observed = 0
    /\ lastCall = NoCall
    /\ Identifier = <<>>
    /\ dest = "zero"
    /\ located = NotLocated
    /\ WatchIdle

FailingNext == DoBuildLayers

FailingSpec == FailingInit /\ [][FailingNext]_vars

\* the Load of source number k fails
LoadFails(k) ==
    \A d \in SourceLoad(lastCall.before, fs, environ, sources[k]) :
        d.err # NoErr

\* C33: Build returns an error exactly when the Load of some source fails;
\* it then returns no map and the error of the first such source, having
\* loaded and merged the sources before it and loaded none after it.
C33_BuildStopsAtFirstError ==
    lastCall.op = "BuildLayers" =>
        /\ lastCall.err # NoErr <=> \E k \in 1..Len(sources) : LoadFails(k)
        /\ lastCall.err = NoErr => lastCall.result # NilMap
        /\ lastCall.err # NoErr =>
            /\ lastCall.result = NilMap
            /\ LET k == CHOOSE i \in 1..Len(sources) :
                            LoadFails(i) /\ \A j \in 1..(i - 1) : ~LoadFails(j)
               IN  \E r \in Build(lastCall.before, fs, environ,
                                  SubSeq(sources, 1, k - 1)) :
                   \E d \in SourceLoad(r.heap, fs, environ, sources[k]) :
                        /\ r.err = NoErr
                        /\ d.err = lastCall.err
                        /\ heap = d.heap

\* the first file is missing and the second undecodable: Build returned the
\* error of the first
C33_Witness ==
    /\ lastCall.op = "BuildLayers"
    /\ lastCall.err = "NotFound"
    /\ sources[1].required
    /\ sources[1].identifier \notin DOMAIN fs
    /\ sources[3].identifier \in DOMAIN fs
    /\ fs[sources[3].identifier] = BadDoc

(***************************************************************************)
(* Further claims about Locate and Reload.                                 *)
(***************************************************************************)
\* C34: for one identifier and one file system, every call of Locate
\* returns the same path: the path a call has returned is the only one a
\* call can return.
C34_LocateDeterministic ==
    located.called =>
        \A r \in Locate(fs, Identifier) : r.path = located.path

\* C35: when Reload returns an error, Configuration.Identifier has the value
\* it had before the call.
C35_FailedReloadKeepsIdentifier ==
    lastCall.op = "Reload" /\ lastCall.err # NoErr =>
        Identifier = lastCall.arg

\* the paths loader.Load() can return for the identifier Reload was given
ResolvedPaths ==
    { l.identifier : l \in { x \in Load(fs, lastCall.arg) : x.err = NoErr } }

\* C35 as amended: when Reload returns the error of the loader construction
\* or of Load, Identifier has the value it had before the call; when it
\* returns the error of the codec dispatch or of Deserialize, Identifier is
\* the path Load resolved.
C35_IdentifierIsResolvedAfterLoad ==
    lastCall.op = "Reload" /\ lastCall.err # NoErr =>
        IF lastCall.err \in {"NoMatchingCodec", "DeserializeError"}
        THEN Identifier \in ResolvedPaths
        ELSE Identifier = lastCall.arg

\* Reload("cfg") found cfg.yaml, could not decode it and left its path in
\* Identifier
C35_Witness ==
    /\ lastCall.op = "Reload"
    /\ lastCall.err = "DeserializeError"
    /\ lastCall.arg = << "cfg" >>
    /\ Identifier = << "cfg", ".yaml" >>

(***************************************************************************)
(* Further claims about the Configuration watch and the files.             *)
(***************************************************************************)
\* the watch has been set up and nothing has ended it: done is not closed
\* and the sources of the watcher are open
WatchKeepsRunning ==
    /\ cfgPc = "returned"
    /\ done # "closed"
    /\ watcher = "open"
    /\ ~eventsClosed
    /\ ~errorsClosed

\* C36: when the watch keeps running and the file of the Configuration was
\* last written with a valid document, a value holding that document is
\* eventually published.
C36_NoChangeLost ==
    <>[](WatchKeepsRunning /\ Identifier \in DOMAIN fs
            /\ fs[Identifier] = JsonV2)
        => <>(\E i \in 1..Len(published) : published[i] = "v2")

\* C37: the path the Load of a reload cycle resolves is the path the watch
\* was registered on: when a cycle runs, Load can resolve no other path, and
\* a cycle that has succeeded leaves that path in Identifier.
C37_CycleReadsWatchedPath ==
    [][bgPc = "cycle" /\ bgPc' # "cycle" =>
        /\ \A l \in Load(fs, loaderIdentifier) :
                l.err = NoErr => l.identifier = watchLocation
        /\ bgPc' = "send" => Identifier' = watchLocation]_vars

(***************************************************************************)
(* pathing.go and accessor.go: Set on the ConfigMap that Build returned.   *)
(* lastCall keeps the tree the defaults held when they were given to the   *)
(* builder, the tree of the first Build when it returned, and the map of   *)
(* a later Build.                                                          *)
(***************************************************************************)
MaxSets == 1

\* builder := NewConfigBuilder().AddDefaults(defaults)
SharingInit ==
    /\ \E defaults \in TreeTable[MaxLayerEntries] :
            LET stored == Store(<<>>, StringKeyed(defaults))
            IN  /\ heap = stored.heap
                /\ sources = << MemorySource(stored.ref) >>
    /\ fs = <<>>
    /\ merged = NilMap
    /\ environ = <<>>
    /\ observed = 0
    /\ lastCall = NoCall
    /\ Identifier = <<>>
    /\ dest = "zero"
    /\ located = NotLocated
    /\ WatchIdle

\* config, _ := builder.Build()
DoBuildConfig ==
    /\ lastCall = NoCall
    /\ \E r \in Build(heap, fs, environ, sources) :
        /\ heap' = r.heap
        /\ merged' = r.result
        /\ lastCall' = [op |-> "Build",
                        defaults |-> Tree(heap, sources[1].data),
                        first |-> Tree(r.heap, r.result),
                        sets |-> 0, later |-> NilMap]
    /\ UNCHANGED << Identifier, fs, dest, cfgPc, cfgRet, pkgRet, chanCap,
                    outBuf, outClosed, published, done, activeAtClose,
                    skipped, watcher, closeCalls, watchLocation, events,
                    eventsClosed, errorsPending, errorsClosed, loaderPc,
                    loaderIdentifier, bgPc, nWrites, located, sources,
                    environ, observed >>

\* config.Set(key, value) on the ConfigMap of the first Build
DoSetBuilt ==
    /\ lastCall.op = "Build"
    /\ lastCall.sets < MaxSets
    /\ \E key \in KeyStrings :
        LET r == ConfigMapSet(heap, merged, key, Scalar("s2"))
        IN  /\ heap' = r.heap
            /\ lastCall' = [lastCall EXCEPT !.sets = @ + 1]
    /\ UNCHANGED << Identifier, fs, dest, cfgPc, cfgRet, pkgRet, chanCap,
                    outBuf, outClosed, published, done, activeAtClose,
                    skipped, watcher, closeCalls, watchLocation, events,
                    eventsClosed, errorsPending, errorsClosed, loaderPc,
                    loaderIdentifier, bgPc, nWrites, located, sources,
                    environ, observed, merged >>

\* again, _ := builder.Build(), after the Set
DoBuildAgain ==
    /\ lastCall.op = "Build"
    /\ lastCall.sets > 0
    /\ lastCall.later = NilMap
    /\ \E r \in Build(heap, fs, environ, sources) :
        /\ heap' = r.heap
        /\ lastCall' = [lastCall EXCEPT !.later = r.result]
    /\ UNCHANGED << Identifier, fs, dest, cfgPc, cfgRet, pkgRet, chanCap,
                    outBuf, outClosed, published, done, activeAtClose,
                    skipped, watcher, closeCalls, watchLocation, events,
                    eventsClosed, errorsPending, errorsClosed, loaderPc,
                    loaderIdentifier, bgPc, nWrites, located, sources,
                    environ, observed, merged >>

SharingNext == DoBuildConfig \/ DoSetBuilt \/ DoBuildAgain

SharingSpec == SharingInit /\ [][SharingNext]_vars

\* C38: whatever is set on the ConfigMap Build returned, the map given to
\* AddDefaults holds the tree it held when it was given, and a later Build
\* of the builder returns the tree the first Build returned.
C38_BuiltConfigSharesNothing ==
    lastCall.op = "Build" =>
        /\ Tree(heap, sources[1].data) = lastCall.defaults
        /\ lastCall.later # NilMap =>
                Tree(heap, lastCall.later) = lastCall.first

(***************************************************************************)
(* Further claims about EnvSource: the order of the environment.           *)
(***************************************************************************)
\* the orders in which the environment can list its entries
Reorderings(env) ==
    { [i \in 1..Len(env) |-> env[f[i]]] :
        f \in { g \in [1..Len(env) -> 1..Len(env)] :
                  \A i, j \in 1..Len(env) : g[i] = g[j] => i = j } }

\* the tree EnvSource.Load builds from the environment env
EnvTree(env) ==
    LET r == EnvSourceLoad(<<>>, env, sources[1])
    IN  Tree(r.heap, r.result)

\* entries i and j are stored at key paths one of which begins with the
\* other, and they are not the same value at the same key path
Collide(i, j) ==
    /\ i # j /\ Kept(i) /\ Kept(j)
    /\ Comparable(KeyPath(i), KeyPath(j))
    /\ ~(KeyPath(i) = KeyPath(j) /\ EntryValue(i) = EntryValue(j))

\* C39: the tree EnvSource.Load returned is the tree it builds from the
\* same entries listed in any other order.
C39_EnvOrderIrrelevant ==
    lastCall.op = "EnvSource.Load" =>
        \A env \in Reorderings(environ) :
            EnvTree(env) = Tree(heap, lastCall.result)

\* C39, amended: the same when no two entries of the environment are
\* stored at key paths one of which begins with the other (entries with
\* the same key path and the same value excepted).
C39_EnvOrderIrrelevantUnlessCollide ==
    (/\ lastCall.op = "EnvSource.Load"
     /\ \A i, j \in 1..Len(environ) : ~Collide(i, j)) =>
        \A env \in Reorderings(environ) :
            EnvTree(env) = Tree(heap, lastCall.result)

\* C39 witness: two entries stored at key paths neither of which begins
\* with the other have been loaded, and the tree holds both
C39_Witness ==
    /\ lastCall.op = "EnvSource.Load"
    /\ Len(environ) = 2
    /\ Kept(1) /\ Kept(2)
    /\ ~Comparable(KeyPath(1), KeyPath(2))
    /\ LeafPaths(Tree(heap, lastCall.result)) = { KeyPath(1), KeyPath(2) }
    /\ EntryValue(1) # EntryValue(2)

(***************************************************************************)
(* Further claims about ConfigMap.Set: the calls that fail.                *)
(***************************************************************************)
\* a beginning of the key path p, shorter than p, leads in the tree t to a
\* value that is not a map
ThroughNonMap(t, p) ==
    \E n \in 1..(Len(p) - 1) :
        /\ SubSeq(p, 1, n) \in KeyPaths(t)
        /\ Get(t, SubSeq(p, 1, n)).kind # "map"

\* C40: Set returns an error for the empty key and for a key whose path
\* leads through a value that is not a map, and after a Set that returned
\* an error the tree of the ConfigMap is the tree it was before the call.
C40_FailedSetChangesNothing ==
    lastCall.op = "Set" =>
        /\ lastCall.key = <<>> => lastCall.err # NoErr
        /\ ThroughNonMap(lastCall.before,
                         Split(lastCall.key, keySeparator)) =>
                lastCall.err # NoErr
        /\ lastCall.err # NoErr => Tree(heap, merged) = lastCall.before

\* C40 witness: a Set whose key path leads through a value that is not a
\* map has returned its error
C40_Witness ==
    /\ lastCall.op = "Set"
    /\ lastCall.err = "NotAMap"
    /\ Len(Split(lastCall.key, keySeparator)) > 2
    /\ ThroughNonMap(lastCall.before, Split(lastCall.key, keySeparator))
    /\ Tree(heap, merged) = lastCall.before

====
